---------------------------- MODULE Spec2Model ----------------------------
(***************************************************************************)
(* A model of the tt_riingd daemon: the task supervisor, the service       *)
(* loops, the monitoring tick, the sensor/fan mapping index and the        *)
(* controller session.  Every part has its own variables and its own       *)
(* specification; the variables of the other parts stay at their initial   *)
(* values.                                                                 *)
(***************************************************************************)
EXTENDS Integers, Sequences, FiniteSets, TLC

(***************************************************************************)
(* Bounds of the model.                                                    *)
(***************************************************************************)
\* tasks that can be spawned in one run of the supervisor
MaxTasks == 3

\* fan channels of the controller that mappings can name
MaxChannels == 2

\* <<sensor, target>> pairs of a mapping configuration
MaxMappings == 2

\* tasks that call into one controller session at the same time
MaxCallers == 2

\* temperatures a sensor can report
MaxTemp == 2

\* fans configured on the controller
ConfiguredFans == 1

\* events that can wait in a receiver of a service loop
MaxQueue == 1

\* slots of the broadcast channel of the event bus
BusCapacity == 2

\* publish calls in one run
MaxPublish == 3

\* receivers subscribed in one run
MaxSubscribers == 2

\* clones of the event bus
MaxClones == 2

\* calls of initialize, start_all_services and run_main_loop in one run
MaxCalls == 3

\* events one run of the main loop handles
MaxEvents == 2

\* distinct contents of the hot-reloadable sections of a configuration
MaxContent == 2

\* provider starts that fail in one start_all_services
MaxFailures == 1

\* filesystem events the notify handler sends in one run
MaxFsEvents == 3

\* filesystem events waiting in the watcher's channel
MaxFsQueue == 2

\* half debounce periods one run of the watcher lasts
MaxHalfPeriods == 4

\* distinct values of one section of a configuration
MaxSectionValues == 2

\* classifier calls and file edits in one run
MaxClassifierSteps == 2

\* fans of the controller
DrFanCount == 2

\* points of a step curve
MaxPoints == 3

\* iterations of the Bezier search (MAX_ITERATIONS in the code)
BezierIterations == 3

\* controllers of the configuration
MaxTargetControllers == 3

\* fans of each of them
MaxTargetFans == 4

\* bytes of the response buffer the model keeps
KeptBytes == 5

\* colour triplets of a SetRgb command, besides the full ring of 52
MaxTriplets == 2

\* longest buffer handed to the GetData decoder
MaxBufLen == 6

\* sensors of AppState.sensors, fans mapped to one sensor, and passes of
\* the monitoring loop, where its cancellation is followed
McSensorCount == 2
McMaxFans == 2
McMaxPasses == 2

\* color mappings of a configuration, targets of one mapping, and passes
\* of the color loop
MaxColorMappings == 2
MaxColorTargets == 1
MaxColorPasses == 2

\* stop calls of the control endpoint in one run, and events that wait in
\* the receiver of the main loop
MaxStops == 2
MaxShQueue == 2

\* operations on a fan after it was built
MaxFanOps == 2

\* calls of one task on the shared Mapping
MaxIndexCalls == 2

\* Option::None of first_error, as a <<handle, outcome>> pair
NoError == <<0, "none">>

\* shutdown_all has not returned
NotReturned == [status |-> "none", error |-> NoError]

(***************************************************************************)
(* Task supervisor: src/src/task_manager.rs                                *)
(***************************************************************************)
VARIABLES
    tasks,          \* TaskManager.tasks: name -> handle (NoTask: no entry)
    global_token,   \* TaskManager.global_token: TRUE once cancelled
    task_state,     \* the spawned futures: unborn, running, ok, err, panicked
    sd_pc,          \* position of the caller in shutdown_all
    sd_handles,     \* shutdown_all: handles still to be awaited, in order
    sd_drained,     \* shutdown_all: the handles taken out of the registry
    sd_awaited,     \* shutdown_all: <<handle, outcome>> in the order awaited
    first_error,    \* shutdown_all: first_error
    sd_result       \* what shutdown_all returned

tmVars == <<tasks, global_token, task_state, sd_pc, sd_handles, sd_drained,
            sd_awaited, first_error, sd_result>>

\* Mapping index: src/src/mappings.rs
VARIABLES
    map_cfg,        \* the mapping configuration, flattened to <<sensor, fan>>
    fans2sensor,    \* Mapping.fans2sensor
    sensor2fans,    \* Mapping.sensor2fans
    last_mut        \* per fan: the last attach (its sensor) or detach since load

mapVars == <<map_cfg, fans2sensor, sensor2fans, last_mut>>

\* Controller session: src/src/drivers/tt_riing_quad/ttriing_quad.rs
VARIABLES
    sess_owner,     \* the holder of the Mutex around Controller<HidDevice>
    sess_pc,        \* per caller: its position in the call it makes
    sess_inflight   \* requests written to the device and not yet read back

sessVars == <<sess_owner, sess_pc, sess_inflight>>

\* Monitoring tick and the sample cache: src/src/providers/monitoring.rs
VARIABLES
    mon_pc,         \* position of the monitoring task
    mon_i,          \* index of the sensor the tick is at
    mon_fans,       \* fans of that sensor still to be updated
    temperatures,   \* the tick's local map
    sensor_data,    \* AppState.sensor_data, the shared sample cache
    cache_readers,  \* tasks that hold a read guard of sensor_data
    rd_seen,        \* per reader: what it read under its guard, <<>> if nothing
    mon_log,        \* what the tick has done so far, in order
    mon_failed,     \* a read or an update of the tick returned an error
    snap_old,       \* the cache when the tick began
    mon_payload     \* <<payload>> of the tick's TemperatureChanged, <<>> if none

monVars == <<mon_pc, mon_i, mon_fans, temperatures, sensor_data, cache_readers,
             rd_seen, mon_log, mon_failed, snap_old, mon_payload>>

\* Service loops: src/src/providers/{monitoring,broadcast,fan_color,
\* config_watcher}.rs
VARIABLES
    svc_pc,             \* per service: start, select, work, returned_ok/_err
    svc_token,          \* per service: its child token is cancelled
    color_rx,           \* fan color loop: events waiting in its bus receiver
    fs_rx,              \* config watcher: events waiting in event_rx
    has_pending_event   \* config watcher: has_pending_event

svcVars == <<svc_pc, svc_token, color_rx, fs_rx, has_pending_event>>

\* Event bus: src/src/event.rs
VARIABLES
    bus_sent,       \* per channel: the events its sender accepted, in order
    rx_state,       \* per receiver: none, live or dropped
    rx_chan,        \* per receiver: the channel it was subscribed on
    rx_next,        \* per receiver: how many events of the channel it is past
    rx_start,       \* per receiver: the channel's length at its subscribe
    rx_got,         \* per receiver: the results of its recv calls, in order
    pub_count,      \* publish calls so far
    pub_result      \* the result of the last publish

busVars == <<bus_sent, rx_state, rx_chan, rx_next, rx_start, rx_got, pub_count,
             pub_result>>

\* Coordinator and configuration manager: src/src/coordinator.rs,
\* src/src/config.rs
VARIABLES
    config,             \* ConfigManager.config, the in-memory configuration
    disk,               \* the content of the file at ConfigManager.path
    shared_state,       \* SystemCoordinator.shared_state
    service_providers,  \* SystemCoordinator.service_providers
    co_pc,              \* "idle", or "loop" inside run_main_loop
    co_tasks,           \* names the providers' start registered as tasks
    co_token,           \* the task manager's global token is cancelled
    start_calls,        \* the provider.start calls of the call that returned
                        \* last, in order, with their results
    co_ret,             \* the call that returned last and what it returned,
                        \* NoReturn while run_main_loop is running
    co_calls,           \* calls of the coordinator's public methods so far
    co_events,          \* events the main loop has handled since the last
                        \* call of a public method
    last_event,         \* the last of them
    interval_cfg        \* the configuration the monitoring loop's interval
                        \* was built from

coVars == <<config, disk, shared_state, service_providers, co_pc, co_tasks,
            co_token, start_calls, co_ret, co_calls, co_events, last_event,
            interval_cfg>>

\* Config watcher, its filesystem events: src/src/providers/config_watcher.rs
VARIABLES
    cw_pc,                  \* "select", or "stopped" after the cancel branch
    cw_exists,              \* the configuration file exists on disk
    cw_rx,                  \* event_rx: filesystem events not yet received
    cw_has_pending_event,   \* has_pending_event
    cw_published,           \* the ConfigChangeDetected events published
    cw_since,               \* the filesystem events received since the
                            \* previous publication
    cw_emitted,             \* filesystem events emitted so far
    cw_now,                 \* milliseconds since debounce_interval was created
    cw_deadline,            \* debounce_interval: the deadline of its next tick
    cw_armed_at,            \* when has_pending_event went from false to true
    cw_matches,             \* when the events that set the flag were received
    cw_analyses             \* the calls of analyze_config_changes: when, and
                            \* when the flag they answer was armed

cwVars == <<cw_pc, cw_exists, cw_rx, cw_has_pending_event, cw_published,
            cw_since, cw_emitted, cw_now, cw_deadline, cw_armed_at,
            cw_matches, cw_analyses>>

\* Change classifier of the configuration manager: spec.md, section 4.9
VARIABLES
    cl_mem,         \* the in-memory configuration
    cl_file,        \* the configuration file, NoFile if it does not load
    cl_result,      \* what the last analyze_config_changes returned
    cl_calls        \* calls of analyze_config_changes and file edits so far

clVars == <<cl_mem, cl_file, cl_result, cl_calls>>

\* Curve evaluator: src/src/drivers/tt_riing_quad/controller.rs
VARIABLES
    cv_curve,       \* the active curve of the fan
    cv_temp,        \* the temperature compute_speed is called with
    cv_result       \* what compute_speed returned, NoDuty before the call

cvVars == <<cv_curve, cv_temp, cv_result>>

\* One controller and its fans:
\* src/src/drivers/tt_riing_quad/ttriing_quad.rs, controller.rs
VARIABLES
    dr_fans,        \* Controller.fans: per fan its last reading, active
                    \* curve name and curve map
    dr_dev,         \* the requests the last call sent to the device, in order
    dr_ret          \* the last call: operation, channel and what it returned

drVars == <<dr_fans, dr_dev, dr_ret>>

\* Addressing of a fan from the configuration to the device:
\* src/src/mappings.rs, providers/monitoring.rs, interface.rs, controller.rs,
\* drivers/tt_riing_quad/ttriing_quad.rs
VARIABLES
    ad_pc,          \* config, indexed, called, resolved, done or failed
    ad_target,      \* the configured target: <<controller, fan_idx>>
    ad_fanref,      \* the FanRef the mapping index holds for it
    ad_op,          \* the operation of the controller set that is called
    ad_call,        \* its arguments: <<controller, channel>>
    ad_ctrl,        \* the place in the controller list of the controller it
                    \* resolved, counted from 1; 0: none
    ad_fan,         \* the place of the fan in Controller.fans, counted from 1
    ad_port         \* the port of the requests sent to the device; 0: none

adVars == <<ad_pc, ad_target, ad_fanref, ad_op, ad_call, ad_ctrl, ad_fan,
            ad_port>>

\* Status requests of the device session:
\* src/src/drivers/tt_riing_quad/controller.rs, protocol.rs, device_io.rs
VARIABLES
    pr_cmd,         \* the command of the request
    pr_write,       \* whether dev.write succeeds
    pr_read,        \* what read_timeout returns: bytes read, -1 for an error
    pr_status,      \* byte 2 of what the device answers
    pr_buf,         \* the first bytes of buf after dev.read
    pr_result       \* what init, set_speed or set_rgb returned

prVars == <<pr_cmd, pr_write, pr_read, pr_status, pr_buf, pr_result>>

\* Command encoding: src/src/drivers/tt_riing_quad/protocol.rs
VARIABLES
    en_cmd,         \* the Command to encode
    en_bytes        \* what to_bytes returned, <<>> before the call

enVars == <<en_cmd, en_bytes>>

\* GetData decoding: src/src/drivers/tt_riing_quad/protocol.rs
VARIABLES
    gd_buf,         \* the bytes handed to Response::parse
    gd_result       \* what parse returned for Command::GetData

gdVars == <<gd_buf, gd_result>>

\* Cancellation of the monitoring loop: src/src/providers/monitoring.rs
VARIABLES
    mc_pc,          \* select, sensor, reading, fans, updating, replace, returned
    mc_token,       \* the cancellation token of the task is cancelled
    mc_i,           \* index of the sensor the pass is at
    mc_left,        \* fans of that sensor still to be updated
    mc_begun,       \* reads and updates begun with the token cancelled
    mc_passes       \* passes begun so far

mcVars == <<mc_pc, mc_token, mc_i, mc_left, mc_begun, mc_passes>>

\* Color loop: src/src/providers/fan_color.rs
VARIABLES
    fc_cfg,         \* colors and color_mappings of the configuration
    fc_pc,          \* select, pass, panicked
    fc_k,           \* the call of the pass that is next
    fc_applied,     \* channels of the calls the pass has made
    fc_pub,         \* ColorChanged publications so far
    fc_passes       \* passes begun so far, and what began the last one

fcVars == <<fc_cfg, fc_pc, fc_k, fc_applied, fc_pub, fc_passes>>

\* Shutdown requests of the control endpoint: src/src/interface.rs,
\* src/src/coordinator.rs
VARIABLES
    sh_pc,          \* coordinator: starting, loop, busy, stopped
    sh_rx,          \* events waiting in the receiver of the main loop
    sh_color,       \* the color loop has subscribed its receiver
    sh_stops        \* the stop calls so far: result, and whether the main
                    \* loop had subscribed

shVars == <<sh_pc, sh_rx, sh_color, sh_stops>>

\* Start-up of the service tasks: src/src/task_manager.rs,
\* src/src/coordinator.rs, src/src/providers/dbus.rs
VARIABLES
    st_i,           \* position of start_all_services in service_providers
    st_task,        \* per provider: unspawned, startup, running, failed
    st_reported,    \* providers logged as started successfully
    st_ret          \* what start_all_services returned, "none" before

stVars == <<st_i, st_task, st_reported, st_ret>>

\* Locks of the shared state: src/src/providers/*.rs, src/src/interface.rs,
\* src/src/config.rs, src/src/drivers/tt_riing_quad/ttriing_quad.rs
VARIABLES
    lk_unit,        \* per task: the unit of work it is in, "idle" if none
    lk_pc,          \* per task: the step of the unit that is next
    lk_held,        \* the guards that are alive: task, lock, mode
    lk_queue        \* per lock: the tasks that wait for it, first come first

lkVars == <<lk_unit, lk_pc, lk_held, lk_queue>>

\* Fans built from a configuration: src/src/config.rs,
\* src/src/drivers/tt_riing_quad/ttriing_quad.rs
VARIABLES
    fb_cfg,         \* the curve table and the fan entry of the configuration
    fb_fan,         \* the Fan that find_controllers built, NoFan before
    fb_ret,         \* the last operation on the fan and its result
    fb_ops          \* operations on the fan so far

fbVars == <<fb_cfg, fb_fan, fb_ret, fb_ops>>

\* Concurrent calls on one Mapping: src/src/mappings.rs
VARIABLES
    ca_f2s,         \* fans2sensor of the shared Mapping
    ca_s2f,         \* sensor2fans of the shared Mapping
    ca_pc,          \* per task: where it is in its call
    ca_call,        \* per task: the call it is in
    ca_old,         \* per task: what the first map operation returned
    ca_calls        \* per task: calls begun so far

caVars == <<ca_f2s, ca_s2f, ca_pc, ca_call, ca_old, ca_calls>>

vars == <<tmVars, mapVars, sessVars, monVars, svcVars, busVars, coVars, cwVars, clVars, cvVars, drVars, adVars, prVars, enVars, gdVars, mcVars, fcVars, shVars, stVars, lkVars, fbVars, caVars>>

\* what the actions of each part leave alone
tmOthers == <<mapVars, sessVars, monVars, svcVars, busVars, coVars, cwVars, clVars, cvVars, drVars, adVars, prVars, enVars, gdVars, mcVars, fcVars, shVars, stVars, lkVars, fbVars, caVars>>
mapOthers == <<tmVars, sessVars, monVars, svcVars, busVars, coVars, cwVars, clVars, cvVars, drVars, adVars, prVars, enVars, gdVars, mcVars, fcVars, shVars, stVars, lkVars, fbVars, caVars>>
sessOthers == <<tmVars, mapVars, monVars, svcVars, busVars, coVars, cwVars, clVars, cvVars, drVars, adVars, prVars, enVars, gdVars, mcVars, fcVars, shVars, stVars, lkVars, fbVars, caVars>>
monOthers == <<tmVars, mapVars, sessVars, svcVars, busVars, coVars, cwVars, clVars, cvVars, drVars, adVars, prVars, enVars, gdVars, mcVars, fcVars, shVars, stVars, lkVars, fbVars, caVars>>
svcOthers == <<tmVars, mapVars, sessVars, monVars, busVars, coVars, cwVars, clVars, cvVars, drVars, adVars, prVars, enVars, gdVars, mcVars, fcVars, shVars, stVars, lkVars, fbVars, caVars>>
busOthers == <<tmVars, mapVars, sessVars, monVars, svcVars, coVars, cwVars, clVars, cvVars, drVars, adVars, prVars, enVars, gdVars, mcVars, fcVars, shVars, stVars, lkVars, fbVars, caVars>>
coOthers == <<tmVars, mapVars, sessVars, monVars, svcVars, busVars, cwVars, clVars, cvVars, drVars, adVars, prVars, enVars, gdVars, mcVars, fcVars, shVars, stVars, lkVars, fbVars, caVars>>
cwOthers == <<tmVars, mapVars, sessVars, monVars, svcVars, busVars, coVars, clVars, cvVars, drVars, adVars, prVars, enVars, gdVars, mcVars, fcVars, shVars, stVars, lkVars, fbVars, caVars>>
clOthers == <<tmVars, mapVars, sessVars, monVars, svcVars, busVars, coVars, cwVars, cvVars, drVars, adVars, prVars, enVars, gdVars, mcVars, fcVars, shVars, stVars, lkVars, fbVars, caVars>>
cvOthers == <<tmVars, mapVars, sessVars, monVars, svcVars, busVars, coVars, cwVars, clVars, drVars, adVars, prVars, enVars, gdVars, mcVars, fcVars, shVars, stVars, lkVars, fbVars, caVars>>
drOthers == <<tmVars, mapVars, sessVars, monVars, svcVars, busVars, coVars, cwVars, clVars, cvVars, adVars, prVars, enVars, gdVars, mcVars, fcVars, shVars, stVars, lkVars, fbVars, caVars>>
adOthers == <<tmVars, mapVars, sessVars, monVars, svcVars, busVars, coVars, cwVars, clVars, cvVars, drVars, prVars, enVars, gdVars, mcVars, fcVars, shVars, stVars, lkVars, fbVars, caVars>>
prOthers == <<tmVars, mapVars, sessVars, monVars, svcVars, busVars, coVars, cwVars, clVars, cvVars, drVars, adVars, enVars, gdVars, mcVars, fcVars, shVars, stVars, lkVars, fbVars, caVars>>
enOthers == <<tmVars, mapVars, sessVars, monVars, svcVars, busVars, coVars, cwVars, clVars, cvVars, drVars, adVars, prVars, gdVars, mcVars, fcVars, shVars, stVars, lkVars, fbVars, caVars>>
gdOthers == <<tmVars, mapVars, sessVars, monVars, svcVars, busVars, coVars, cwVars, clVars, cvVars, drVars, adVars, prVars, enVars, mcVars, fcVars, shVars, stVars, lkVars, fbVars, caVars>>
mcOthers == <<tmVars, mapVars, sessVars, monVars, svcVars, busVars, coVars, cwVars, clVars, cvVars, drVars, adVars, prVars, enVars, gdVars, fcVars, shVars, stVars, lkVars, fbVars, caVars>>
fcOthers == <<tmVars, mapVars, sessVars, monVars, svcVars, busVars, coVars, cwVars, clVars, cvVars, drVars, adVars, prVars, enVars, gdVars, mcVars, shVars, stVars, lkVars, fbVars, caVars>>
shOthers == <<tmVars, mapVars, sessVars, monVars, svcVars, busVars, coVars, cwVars, clVars, cvVars, drVars, adVars, prVars, enVars, gdVars, mcVars, fcVars, stVars, lkVars, fbVars, caVars>>
stOthers == <<tmVars, mapVars, sessVars, monVars, svcVars, busVars, coVars, cwVars, clVars, cvVars, drVars, adVars, prVars, enVars, gdVars, mcVars, fcVars, shVars, lkVars, fbVars, caVars>>
lkOthers == <<tmVars, mapVars, sessVars, monVars, svcVars, busVars, coVars, cwVars, clVars, cvVars, drVars, adVars, prVars, enVars, gdVars, mcVars, fcVars, shVars, stVars, fbVars, caVars>>
fbOthers == <<tmVars, mapVars, sessVars, monVars, svcVars, busVars, coVars, cwVars, clVars, cvVars, drVars, adVars, prVars, enVars, gdVars, mcVars, fcVars, shVars, stVars, lkVars, caVars>>
caOthers == <<tmVars, mapVars, sessVars, monVars, svcVars, busVars, coVars, cwVars, clVars, cvVars, drVars, adVars, prVars, enVars, gdVars, mcVars, fcVars, shVars, stVars, lkVars, fbVars>>

TaskNames == {"MonitoringService", "BroadcastService"}
TaskIds == 1..MaxTasks
NoTask == 0

\* the number of entries of the registry
active_count == Cardinality({n \in TaskNames : tasks[n] # NoTask})

\* every enumeration of a finite set, as a sequence
Orders(S) ==
    {f \in [1..Cardinality(S) -> S] : \A i, j \in DOMAIN f : f[i] = f[j] => i = j}

TMInit ==
    /\ tasks = [n \in TaskNames |-> NoTask]
    /\ global_token = FALSE
    /\ task_state = [t \in TaskIds |-> "unborn"]
    /\ sd_pc = "idle"
    /\ sd_handles = <<>>
    /\ sd_drained = {}
    /\ sd_awaited = <<>>
    /\ first_error = NoError
    /\ sd_result = NotReturned

\* spawn_task: a child token, tokio::spawn, insert under the name (an entry of
\* the same name is replaced and its handle dropped: the old task is detached)
SpawnTask(name) ==
    /\ UNCHANGED tmOthers
    /\ sd_pc \in {"idle", "returned"}
    /\ \E t \in TaskIds :
        /\ task_state[t] = "unborn"
        /\ \A u \in TaskIds : u < t => task_state[u] # "unborn"
        /\ task_state' = [task_state EXCEPT ![t] = "running"]
        /\ tasks' = [tasks EXCEPT ![name] = t]
    /\ sd_pc' = "idle"
    /\ UNCHANGED <<global_token, sd_handles, sd_drained, sd_awaited,
                   first_error, sd_result>>

\* the future of a task ends: Ok(()), Err(e) or a panic.  A task that never
\* observes its token simply never takes this step.
TaskFinish(t, outcome) ==
    /\ UNCHANGED tmOthers
    /\ task_state[t] = "running"
    /\ task_state' = [task_state EXCEPT ![t] = outcome]
    /\ UNCHANGED <<tasks, global_token, sd_pc, sd_handles, sd_drained,
                   sd_awaited, first_error, sd_result>>

\* self.tasks.drain(): the registry after the handles were taken out
RegistryKept == tasks
DrainedRegistry == [n \in TaskNames |-> NoTask]

\* self.global_token.cancel()
CancelledToken == TRUE

\* shutdown_all up to its first await: cancel, then drain the registry into
\* a vector (a HashMap iterates in an arbitrary order)
ShutdownBegin ==
    /\ UNCHANGED tmOthers
    /\ sd_pc \in {"idle", "returned"}
    /\ global_token' = CancelledToken
    /\ \E order \in Orders({tasks[n] : n \in TaskNames} \ {NoTask}) :
        sd_handles' = order
    /\ sd_drained' = {tasks[n] : n \in TaskNames} \ {NoTask}
    /\ tasks' = DrainedRegistry
    /\ first_error' = NoError
    /\ sd_awaited' = <<>>
    /\ sd_result' = NotReturned
    /\ sd_pc' = "awaiting"
    /\ UNCHANGED task_state

\* tokio::time::timeout(10 s, handle): resolves when the task has ended or
\* when the timeout elapses, whichever is first
AwaitWithoutTimeout(h) == task_state[h] # "running"
AwaitResolves(h) == TRUE

\* the four arms of the match on the timeout's result
AwaitOutcome(h) ==
    IF task_state[h] = "running" THEN "timeout" ELSE task_state[h]

\* if first_error.is_none() { first_error = Some(e) }
RecordLastError(fe, e) == e
RecordError(fe, e) == IF fe = NoError THEN e ELSE fe

\* one iteration of `for handle in handles`
ShutdownAwait ==
    /\ UNCHANGED tmOthers
    /\ sd_pc = "awaiting"
    /\ sd_handles # <<>>
    /\ LET h == Head(sd_handles)
           kind == AwaitOutcome(h)
       IN  /\ AwaitResolves(h)
           /\ sd_awaited' = Append(sd_awaited, <<h, kind>>)
           /\ first_error' = IF kind = "ok" THEN first_error
                             ELSE RecordError(first_error, <<h, kind>>)
    /\ sd_handles' = Tail(sd_handles)
    /\ UNCHANGED <<tasks, global_token, task_state, sd_pc, sd_drained,
                   sd_result>>

\* after the loop: Err(first_error) or Ok(())
ShutdownReturn ==
    /\ UNCHANGED tmOthers
    /\ sd_pc = "awaiting"
    /\ sd_handles = <<>>
    /\ sd_result' = IF first_error # NoError
                    THEN [status |-> "err", error |-> first_error]
                    ELSE [status |-> "ok", error |-> NoError]
    /\ sd_pc' = "returned"
    /\ UNCHANGED <<tasks, global_token, task_state, sd_handles, sd_drained,
                   sd_awaited, first_error>>

(***************************************************************************)
(* Mapping index: src/src/mappings.rs                                      *)
(***************************************************************************)
SensorKeys == {"cpu", "gpu"}

\* FanRef { controller_id, channel } as <<controller_id, channel>>
FanRefs == {<<1, ch>> : ch \in 1..MaxChannels}

\* &[MappingCfg] after the flat_map: the <<sensor, target>> pairs in the order
\* of the configuration; a fan may be listed more than once
MappingCfgs ==
    UNION {[1..n -> SensorKeys \X FanRefs] : n \in 0..MaxMappings}

\* Self::default()
EmptyMapping == [f2s |-> <<>>, s2f |-> <<>>]

\* DashMap::insert
MapInsert(m, k, v) == [x \in DOMAIN m \cup {k} |-> IF x = k THEN v ELSE m[x]]

\* DashMap::remove
MapRemove(m, k) == [x \in DOMAIN m \ {k} |-> m[x]]

\* sensor2fans.entry(sensor).or_default().insert(fan)
EntryInsert(s2f, sensor, fan) ==
    MapInsert(s2f, sensor,
              (IF sensor \in DOMAIN s2f THEN s2f[sensor] ELSE {}) \cup {fan})

\* if let Some(set) = sensor2fans.get(&key) { set.remove(&fan); }
SetRemove(s2f, key, fan) ==
    IF key \in DOMAIN s2f THEN [s2f EXCEPT ![key] = @ \ {fan}] ELSE s2f

\* the closure of the fold in load_mappings
LoadStep(acc, sensor, fan) ==
    [f2s |-> MapInsert(acc.f2s, fan, sensor),
     s2f |-> EntryInsert(acc.s2f, sensor, fan)]

RECURSIVE LoadFold(_, _, _)
LoadFold(acc, cfg, i) ==
    IF i > Len(cfg) THEN acc
    ELSE LoadFold(LoadStep(acc, cfg[i][1], cfg[i][2]), cfg, i + 1)

load_mappings(cfg) == LoadFold(EmptyMapping, cfg, 1)

\* Mapping::attach
attach(m, fan, sensor) ==
    LET s2f1 == IF fan \in DOMAIN m.f2s
                THEN SetRemove(m.s2f, m.f2s[fan], fan)
                ELSE m.s2f
    IN  [f2s |-> MapInsert(m.f2s, fan, sensor),
         s2f |-> EntryInsert(s2f1, sensor, fan)]

\* Mapping::detach
detach(m, fan) ==
    IF fan \in DOMAIN m.f2s
    THEN [f2s |-> MapRemove(m.f2s, fan),
          s2f |-> SetRemove(m.s2f, m.f2s[fan], fan)]
    ELSE m

\* Mapping::fans_for_sensor, as the set of the fans it yields
fans_for_sensor(sensor) ==
    IF sensor \in DOMAIN sensor2fans THEN sensor2fans[sensor] ELSE {}

\* no attach or detach of the fan since the load
NotMutated == "none"
Detached == "detach"

MapIdle ==
    /\ map_cfg = <<>>
    /\ fans2sensor = <<>>
    /\ sensor2fans = <<>>
    /\ last_mut = [f \in FanRefs |-> NotMutated]

\* Mapping::load_mappings(&config.mappings)
LoadMappings(cfg) ==
    /\ UNCHANGED mapOthers
    /\ map_cfg' = cfg
    /\ fans2sensor' = load_mappings(cfg).f2s
    /\ sensor2fans' = load_mappings(cfg).s2f
    /\ last_mut' = [f \in FanRefs |-> NotMutated]

MapInit ==
    /\ map_cfg \in MappingCfgs
    /\ fans2sensor = load_mappings(map_cfg).f2s
    /\ sensor2fans = load_mappings(map_cfg).s2f
    /\ last_mut = [f \in FanRefs |-> NotMutated]

Attach(fan, sensor) ==
    /\ UNCHANGED mapOthers
    /\ LET m == attach([f2s |-> fans2sensor, s2f |-> sensor2fans], fan, sensor)
       IN  fans2sensor' = m.f2s /\ sensor2fans' = m.s2f
    /\ last_mut' = [last_mut EXCEPT ![fan] = sensor]
    /\ UNCHANGED map_cfg

Detach(fan) ==
    /\ UNCHANGED mapOthers
    /\ LET m == detach([f2s |-> fans2sensor, s2f |-> sensor2fans], fan)
       IN  fans2sensor' = m.f2s /\ sensor2fans' = m.s2f
    /\ last_mut' = [last_mut EXCEPT ![fan] = Detached]
    /\ UNCHANGED map_cfg

MapNext ==
    \/ \E cfg \in MappingCfgs : LoadMappings(cfg)
    \/ \E fan \in FanRefs, sensor \in SensorKeys : Attach(fan, sensor)
    \/ \E fan \in FanRefs : Detach(fan)

(***************************************************************************)
(* Controller session: src/src/drivers/tt_riing_quad/ttriing_quad.rs and   *)
(* Controller::request of src/src/drivers/tt_riing_quad/controller.rs      *)
(***************************************************************************)
Callers == 1..MaxCallers
NoOwner == 0

\* the first step of every call is to take the session's mutex:
\* process_fan (three times), process_fan_color, send_init and
\* firmware_version (self.read().await), switch_curve and the other calls
\* that only touch the fans
FirstPc ==
    [process_fan |-> "pf_lock1", process_fan_color |-> "pc_lock",
     send_init |-> "rq_lock", switch_curve |-> "sc_lock"]

\* where a caller is once Mutex::lock / blocking_lock gave it the guard
AfterLock ==
    [pf_lock1 |-> "pf_compute", pf_lock2 |-> "pf_set_write",
     pf_lock3 |-> "pf_stats", pc_lock |-> "pc_write", rq_lock |-> "rq_write",
     sc_lock |-> "sc_update"]

\* Controller::request: self.dev.write(&pkt)? and then self.dev.read(..)
AfterWrite ==
    [pf_set_write |-> "pf_set_read", pf_get_write |-> "pf_get_read",
     pc_write |-> "pc_read", rq_write |-> "rq_read"]

\* the command of the request at each read
Command ==
    [pf_set_read |-> "SetSpeed", pf_get_read |-> "GetData",
     pc_read |-> "SetRgb", rq_read |-> "Init"]

\* after a request that succeeded: proccess_fan_inner goes on to get_data
\* under the same guard; every other request is the last of its guard
AfterRead ==
    [pf_set_read |-> "pf_get_write", pf_get_read |-> "pf_lock3",
     pc_read |-> "idle", rq_read |-> "idle"]

SessInit ==
    /\ sess_owner = NoOwner
    /\ sess_pc = [c \in Callers |-> "idle"]
    /\ sess_inflight = {}

\* a task calls a method of the session
SessCall(c, op) ==
    /\ UNCHANGED sessOthers
    /\ sess_pc[c] = "idle"
    /\ sess_pc' = [sess_pc EXCEPT ![c] = FirstPc[op]]
    /\ UNCHANGED <<sess_owner, sess_inflight>>

\* tokio::sync::Mutex: lock().await and blocking_lock() return the guard
\* only when no other guard is alive
LockIgnoresOwner(owner) == TRUE
CanLock(owner) == owner = NoOwner

SessLock(c) ==
    /\ UNCHANGED sessOthers
    /\ sess_pc[c] \in DOMAIN AfterLock
    /\ CanLock(sess_owner)
    /\ sess_owner' = c
    /\ sess_pc' = [sess_pc EXCEPT ![c] = AfterLock[sess_pc[c]]]
    /\ UNCHANGED sess_inflight

\* the guard goes out of scope
Unlock(c) == IF sess_owner = c THEN NoOwner ELSE sess_owner

\* process_fan, first block: guard.fans[idx].compute_speed(temp)?
\* (Ok: go on to the device; Err: return it; an idx outside fans panics)
SessCompute(c, res) ==
    /\ UNCHANGED sessOthers
    /\ sess_pc[c] = "pf_compute"
    /\ sess_pc' = [sess_pc EXCEPT ![c] =
                      CASE res = "ok" -> "pf_lock2"
                        [] res = "err" -> "idle"
                        [] OTHER -> "panicked"]
    /\ sess_owner' = Unlock(c)
    /\ UNCHANGED sess_inflight

\* Controller::request, self.dev.write(&pkt)?
SessWrite(c, ok) ==
    /\ UNCHANGED sessOthers
    /\ sess_pc[c] \in DOMAIN AfterWrite
    /\ IF ok
       THEN /\ sess_inflight' =
                  sess_inflight \cup {<<c, Command[AfterWrite[sess_pc[c]]]>>}
            /\ sess_pc' = [sess_pc EXCEPT ![c] = AfterWrite[sess_pc[c]]]
            /\ UNCHANGED sess_owner
       ELSE /\ sess_pc' = [sess_pc EXCEPT ![c] = "idle"]
            /\ sess_owner' = Unlock(c)
            /\ UNCHANGED sess_inflight

\* Controller::request, self.dev.read(&mut buf, READ_TIMEOUT) and the parse
\* of the response; a failure ends the call
SessRead(c, ok) ==
    /\ UNCHANGED sessOthers
    /\ sess_pc[c] \in DOMAIN AfterRead
    /\ sess_inflight' = sess_inflight \ {<<c, Command[sess_pc[c]]>>}
    /\ IF ok /\ sess_pc[c] = "pf_set_read"
       THEN /\ sess_pc' = [sess_pc EXCEPT ![c] = AfterRead[sess_pc[c]]]
            /\ UNCHANGED sess_owner
       ELSE /\ sess_pc' = [sess_pc EXCEPT ![c] =
                              IF ok THEN AfterRead[sess_pc[c]] ELSE "idle"]
            /\ sess_owner' = Unlock(c)

\* process_fan, last statement: fans[idx].update_stats(speed, rpm); and the
\* calls that change a fan under the guard without a request
SessUpdate(c) ==
    /\ UNCHANGED sessOthers
    /\ sess_pc[c] \in {"pf_stats", "sc_update"}
    /\ sess_pc' = [sess_pc EXCEPT ![c] = "idle"]
    /\ sess_owner' = Unlock(c)
    /\ UNCHANGED sess_inflight

SessNext ==
    \/ \E c \in Callers, op \in DOMAIN FirstPc : SessCall(c, op)
    \/ \E c \in Callers : SessLock(c)
    \/ \E c \in Callers, res \in {"ok", "err", "panic"} : SessCompute(c, res)
    \/ \E c \in Callers, ok \in BOOLEAN : SessWrite(c, ok)
    \/ \E c \in Callers, ok \in BOOLEAN : SessRead(c, ok)
    \/ \E c \in Callers : SessUpdate(c)

(***************************************************************************)
(* Monitoring tick and the sample cache: src/src/providers/monitoring.rs,  *)
(* with the readers of the cache in broadcast.rs, fan_color.rs and         *)
(* interface.rs                                                            *)
(***************************************************************************)
\* AppState.sensors, in the order of the vector
SensorList == <<"cpu", "gpu">>
Temps == 1..MaxTemp

\* the tasks that read the sample cache
Readers == {"broadcast", "color", "get_temperatures"}

\* controllers of the configuration
NumControllers == 1

\* Controllers::update_channel(controller_id, channel, temp): the controller
\* at position controller_id - 1, or an unknown-controller error
ResolveController(controller_id) == controller_id \in 1..NumControllers

\* TTRiingQuad::update_channel -> process_fan((channel - 1) as usize):
\* guard.fans[idx] of a channel without a fan panics, every other failure
\* (curve, device write or read) is returned
ProcessFanOutcomes(channel) ==
    IF channel \in 1..ConfiguredFans THEN {"ok", "err"} ELSE {"panic"}

UpdateChannelOutcomes(fan) ==
    IF ResolveController(fan[1]) THEN ProcessFanOutcomes(fan[2]) ELSE {"err"}

\* the tick's position after the sensor at index i is done with
AfterSensor(i) == IF i >= Len(SensorList) THEN "replace" ELSE "sensor"

MonInit ==
    /\ mon_pc = "select"
    /\ mon_i = 1
    /\ mon_fans = {}
    /\ temperatures = <<>>
    /\ sensor_data = <<>>
    /\ cache_readers = {}
    /\ rd_seen = [r \in Readers |-> <<>>]
    /\ mon_log = <<>>
    /\ mon_failed = FALSE
    /\ snap_old = <<>>
    /\ mon_payload = <<>>

\* run_monitoring_service: interval.tick() wins the select;
\* collect_and_process_temperatures begins with an empty map
MonTick ==
    /\ UNCHANGED monOthers
    /\ mon_pc = "select"
    /\ temperatures' = <<>>
    /\ mon_i' = 1
    /\ mon_fans' = {}
    /\ mon_pc' = IF Len(SensorList) = 0 THEN "replace" ELSE "sensor"
    /\ mon_log' = <<>>
    /\ mon_failed' = FALSE
    /\ snap_old' = sensor_data
    /\ mon_payload' = <<>>
    /\ UNCHANGED <<sensor_data, cache_readers, rd_seen>>

\* sensor.read_temperature().await: Ok(temp) is put into the local map and
\* the fans of the sensor are collected; Err is logged
MonReadSensor(ok, temp) ==
    /\ UNCHANGED monOthers
    /\ mon_pc = "sensor"
    /\ mon_log' = Append(mon_log, "read")
    /\ LET key == SensorList[mon_i]
           fans == IF ok THEN fans_for_sensor(key) ELSE {}
       IN  /\ temperatures' =
                 IF ok THEN MapInsert(temperatures, key, temp) ELSE temperatures
           /\ mon_fans' = fans
           /\ mon_pc' = IF fans = {} THEN AfterSensor(mon_i) ELSE "fans"
           /\ mon_i' = IF fans = {} THEN mon_i + 1 ELSE mon_i
    /\ mon_failed' = (mon_failed \/ ~ok)
    /\ UNCHANGED <<sensor_data, cache_readers, rd_seen, snap_old, mon_payload>>

\* one iteration of the loop over fans_for_sensor: update_channel(..).await,
\* an Err is logged; a panic unwinds the monitoring task
MonUpdateChannel(fan, res) ==
    /\ UNCHANGED monOthers
    /\ mon_pc = "fans"
    /\ fan \in mon_fans
    /\ res \in UpdateChannelOutcomes(fan)
    /\ mon_log' = Append(mon_log, "update")
    /\ mon_fans' = mon_fans \ {fan}
    /\ mon_pc' = CASE res = "panic" -> "panicked"
                   [] mon_fans = {fan} -> AfterSensor(mon_i)
                   [] OTHER -> "fans"
    /\ mon_i' = IF res # "panic" /\ mon_fans = {fan} THEN mon_i + 1 ELSE mon_i
    /\ mon_failed' = (mon_failed \/ res # "ok")
    /\ UNCHANGED <<temperatures, sensor_data, cache_readers, rd_seen, snap_old,
                   mon_payload>>

\* tokio RwLock: write().await returns when no read guard is alive
CanWrite(readers) == readers = {}

\* the assignment through the write guard puts the tick's map in the place
\* of the old one
MergedCache(cache, temps) ==
    [k \in DOMAIN cache \cup DOMAIN temps |->
        IF k \in DOMAIN temps THEN temps[k] ELSE cache[k]]
ReplacedCache(cache, temps) == temps

\* *state.sensor_data.write().await = temperatures.clone()
MonReplaceCache ==
    /\ UNCHANGED monOthers
    /\ mon_pc = "replace"
    /\ CanWrite(cache_readers)
    /\ sensor_data' = ReplacedCache(sensor_data, temperatures)
    /\ mon_log' = Append(mon_log, "cache")
    /\ mon_pc' = "publish"
    /\ UNCHANGED <<mon_i, mon_fans, temperatures, cache_readers, rd_seen,
                   mon_failed, snap_old, mon_payload>>

\* Event::TemperatureChanged(temperatures)
EmptyPayload(temps) == <<>>
TemperatureChanged(temps) == temps

\* event_bus.publish(..): an Err (no subscriber) is logged; the tick returns
MonPublish ==
    /\ UNCHANGED monOthers
    /\ mon_pc = "publish"
    /\ mon_payload' = <<TemperatureChanged(temperatures)>>
    /\ mon_log' = Append(mon_log, "publish")
    /\ mon_pc' = "select"
    /\ UNCHANGED <<mon_i, mon_fans, temperatures, sensor_data, cache_readers,
                   rd_seen, mon_failed, snap_old>>

\* state.sensor_data.read().await and the look at the map under the guard
\* (sensor_data.clone()); nothing can suspend the reader between the two
RdRead(r) ==
    /\ UNCHANGED monOthers
    /\ r \notin cache_readers
    /\ cache_readers' = cache_readers \cup {r}
    /\ rd_seen' = [rd_seen EXCEPT ![r] = <<sensor_data>>]
    /\ UNCHANGED <<mon_pc, mon_i, mon_fans, temperatures, sensor_data, mon_log,
                   mon_failed, snap_old, mon_payload>>

\* the read guard is dropped: at the end of the statement (broadcast), of the
\* call (get_temperatures) or of the whole color pass
RdUnlock(r) ==
    /\ UNCHANGED monOthers
    /\ r \in cache_readers
    /\ cache_readers' = cache_readers \ {r}
    /\ rd_seen' = [rd_seen EXCEPT ![r] = <<>>]
    /\ UNCHANGED <<mon_pc, mon_i, mon_fans, temperatures, sensor_data, mon_log,
                   mon_failed, snap_old, mon_payload>>

MonNext ==
    \/ MonTick
    \/ \E ok \in BOOLEAN, temp \in Temps : MonReadSensor(ok, temp)
    \/ \E fan \in FanRefs, res \in {"ok", "err", "panic"} :
          MonUpdateChannel(fan, res)
    \/ MonReplaceCache
    \/ MonPublish
    \/ \E r \in Readers : RdRead(r)
    \/ \E r \in Readers : RdUnlock(r)

(***************************************************************************)
(* Service loops: run_monitoring_service, run_broadcast_service,           *)
(* run_fan_color_service, run_config_watcher_service                       *)
(***************************************************************************)
Services == {"monitoring", "broadcast", "color", "config_watcher"}

\* the loops with an interval.tick() branch that is always armed
TimerServices == {"monitoring", "broadcast", "color"}

\* what the color loop tells apart in receiver.recv(): TemperatureChanged,
\* and everything else (other events, a receive error)
BusKinds == {"TemperatureChanged", "other"}

\* what the watcher tells apart in event_rx.recv(): a modify or create of
\* the configuration file, and everything else (other events, Some(Err))
FsKinds == {"relevant", "other"}

SvcInit ==
    /\ svc_pc = [s \in Services |-> "start"]
    /\ svc_token = [s \in Services |-> FALSE]
    /\ color_rx = <<>>
    /\ fs_rx = <<>>
    /\ has_pending_event = FALSE

\* the task runs up to its loop: the interval, the bus subscription; the
\* watcher returns the error if recommended_watcher or watch fails
SvcStart(s, ok) ==
    /\ UNCHANGED svcOthers
    /\ svc_pc[s] = "start"
    /\ ok \/ s = "config_watcher"
    /\ svc_pc' = [svc_pc EXCEPT ![s] = IF ok THEN "select" ELSE "returned_err"]
    /\ UNCHANGED <<svc_token, color_rx, fs_rx, has_pending_event>>

\* TaskManager::shutdown_all: global_token.cancel() cancels every child token
SvcCancelAll ==
    /\ UNCHANGED svcOthers
    /\ \E s \in Services : ~svc_token[s]
    /\ svc_token' = [s \in Services |-> TRUE]
    /\ UNCHANGED <<svc_pc, color_rx, fs_rx, has_pending_event>>

\* cancel_token.cancelled() is ready
CancelNeverReady(s) == FALSE
CancelReady(s) == svc_token[s]

\* () = cancel_token.cancelled() => break; and after the loop Ok(())
SvcCancelled(s) ==
    /\ UNCHANGED svcOthers
    /\ svc_pc[s] = "select"
    /\ CancelReady(s)
    /\ svc_pc' = [svc_pc EXCEPT ![s] = "returned_ok"]
    /\ UNCHANGED <<svc_token, color_rx, fs_rx, has_pending_event>>

\* _instant = interval.tick() => the unit of work of the loop begins
SvcTick(s) ==
    /\ UNCHANGED svcOthers
    /\ s \in TimerServices
    /\ svc_pc[s] = "select"
    /\ svc_pc' = [svc_pc EXCEPT ![s] = "work"]
    /\ UNCHANGED <<svc_token, color_rx, fs_rx, has_pending_event>>

\* the unit of work is done (its errors are logged): back to the select
SvcWorkDone(s) ==
    /\ UNCHANGED svcOthers
    /\ svc_pc[s] = "work"
    /\ svc_pc' = [svc_pc EXCEPT ![s] = "select"]
    /\ UNCHANGED <<svc_token, color_rx, fs_rx, has_pending_event>>

\* an event is published on the bus while the color loop is subscribed
BusPublish(kind) ==
    /\ UNCHANGED svcOthers
    /\ svc_pc["color"] \in {"select", "work"}
    /\ Len(color_rx) < MaxQueue
    /\ color_rx' = Append(color_rx, kind)
    /\ UNCHANGED <<svc_pc, svc_token, fs_rx, has_pending_event>>

\* event_result = receiver.recv() => TemperatureChanged starts a color pass,
\* anything else goes back to the select
ColorRecv ==
    /\ UNCHANGED svcOthers
    /\ svc_pc["color"] = "select"
    /\ color_rx # <<>>
    /\ svc_pc' = [svc_pc EXCEPT !["color"] =
                      IF Head(color_rx) = "TemperatureChanged"
                      THEN "work" ELSE "select"]
    /\ color_rx' = Tail(color_rx)
    /\ UNCHANGED <<svc_token, fs_rx, has_pending_event>>

\* the notify handler sends a filesystem event while the watcher is alive
FsEvent(kind) ==
    /\ UNCHANGED svcOthers
    /\ svc_pc["config_watcher"] \in {"select", "work"}
    /\ Len(fs_rx) < MaxQueue
    /\ fs_rx' = Append(fs_rx, kind)
    /\ UNCHANGED <<svc_pc, svc_token, color_rx, has_pending_event>>

\* event_result = event_rx.recv() => a modify or create of the configuration
\* file sets has_pending_event, anything else is logged (the sender lives
\* in the watcher until the function returns, so None is never received)
WatcherRecv ==
    /\ UNCHANGED svcOthers
    /\ svc_pc["config_watcher"] = "select"
    /\ fs_rx # <<>>
    /\ has_pending_event' = (has_pending_event \/ Head(fs_rx) = "relevant")
    /\ fs_rx' = Tail(fs_rx)
    /\ UNCHANGED <<svc_pc, svc_token, color_rx>>

\* _ = debounce_interval.tick(), if has_pending_event => the flag is
\* cleared and the change is analysed and published
WatcherDebounce ==
    /\ UNCHANGED svcOthers
    /\ svc_pc["config_watcher"] = "select"
    /\ has_pending_event
    /\ has_pending_event' = FALSE
    /\ svc_pc' = [svc_pc EXCEPT !["config_watcher"] = "work"]
    /\ UNCHANGED <<svc_token, color_rx, fs_rx>>

SvcNext ==
    \/ \E s \in Services, ok \in BOOLEAN : SvcStart(s, ok)
    \/ SvcCancelAll
    \/ \E s \in Services : SvcCancelled(s)
    \/ \E s \in Services : SvcTick(s)
    \/ \E s \in Services : SvcWorkDone(s)
    \/ \E kind \in BusKinds : BusPublish(kind)
    \/ ColorRecv
    \/ \E kind \in FsKinds : FsEvent(kind)
    \/ WatcherRecv
    \/ WatcherDebounce

(***************************************************************************)
(* Event bus: src/src/event.rs (a tokio broadcast channel)                 *)
(***************************************************************************)
BusEvents == {"SystemShutdown", "ColorChanged"}
BusClones == 1..MaxClones
Subscribers == 1..MaxSubscribers

\* impl Clone for EventBus: sender.clone() is a handle of the same channel
OwnChannel(c) == c
SharedChannel(c) == 1

\* live receivers of a channel (Sender::receiver_count)
LiveReceivers(ch) ==
    {r \in Subscribers : rx_state[r] = "live" /\ rx_chan[r] = ch}

\* events a receiver has not yet been given
Backlog(r) == Len(bus_sent[rx_chan[r]]) - rx_next[r]

\* the ring of BusCapacity slots: the slot of position pos holds the last
\* event that was written at a position congruent to pos
SlotValue(ch, pos) ==
    LET last == CHOOSE k \in 1..Len(bus_sent[ch]) :
                    /\ k % BusCapacity = pos % BusCapacity
                    /\ \A j \in 1..Len(bus_sent[ch]) :
                          j % BusCapacity = pos % BusCapacity => j <= k
    IN  bus_sent[ch][last]

BusInit ==
    /\ bus_sent = [ch \in BusClones |-> <<>>]
    /\ rx_state = [r \in Subscribers |-> "none"]
    /\ rx_chan = [r \in Subscribers |-> 1]
    /\ rx_next = [r \in Subscribers |-> 0]
    /\ rx_start = [r \in Subscribers |-> 0]
    /\ rx_got = [r \in Subscribers |-> <<>>]
    /\ pub_count = 0
    /\ pub_result = "none"

\* EventBus::subscribe on a clone: the receiver starts at the tail
BusSubscribe(c, r) ==
    /\ UNCHANGED busOthers
    /\ rx_state[r] = "none"
    /\ \A q \in Subscribers : q < r => rx_state[q] # "none"
    /\ rx_state' = [rx_state EXCEPT ![r] = "live"]
    /\ rx_chan' = [rx_chan EXCEPT ![r] = SharedChannel(c)]
    /\ rx_next' = [rx_next EXCEPT ![r] = Len(bus_sent[SharedChannel(c)])]
    /\ rx_start' = [rx_start EXCEPT ![r] = Len(bus_sent[SharedChannel(c)])]
    /\ UNCHANGED <<bus_sent, rx_got, pub_count, pub_result>>

\* broadcast::Sender::send fails only without a receiver
SendFailsWhenFull(ch) ==
    \/ LiveReceivers(ch) = {}
    \/ \E r \in LiveReceivers(ch) : Backlog(r) >= BusCapacity
SendFails(ch) == LiveReceivers(ch) = {}

\* EventBus::publish on a clone: self.sender.send(event)?; Ok(())
BusPublishEvent(c, ev) ==
    /\ UNCHANGED busOthers
    /\ pub_count < MaxPublish
    /\ pub_count' = pub_count + 1
    /\ IF SendFails(SharedChannel(c))
       THEN /\ pub_result' = "err"
            /\ UNCHANGED bus_sent
       ELSE /\ pub_result' = "ok"
            /\ bus_sent' = [bus_sent EXCEPT ![SharedChannel(c)] = Append(@, ev)]
    /\ UNCHANGED <<rx_state, rx_chan, rx_next, rx_start, rx_got>>

\* the receiver fell behind by more than the ring holds
HasLagged(r) == Backlog(r) > BusCapacity

\* Receiver::recv with something to return: Err(Lagged) and a jump to the
\* oldest event still in the ring, or the next event
BusRecv(r) ==
    /\ UNCHANGED busOthers
    /\ rx_state[r] = "live"
    /\ Backlog(r) > 0
    /\ IF HasLagged(r)
       THEN /\ rx_got' = [rx_got EXCEPT ![r] = Append(@, "Lagged")]
            /\ rx_next' = [rx_next EXCEPT ![r] =
                              Len(bus_sent[rx_chan[r]]) - BusCapacity]
       ELSE /\ rx_got' = [rx_got EXCEPT ![r] =
                             Append(@, SlotValue(rx_chan[r], rx_next[r] + 1))]
            /\ rx_next' = [rx_next EXCEPT ![r] = @ + 1]
    /\ UNCHANGED <<bus_sent, rx_state, rx_chan, rx_start, pub_count, pub_result>>

\* the receiver is dropped
BusDrop(r) ==
    /\ UNCHANGED busOthers
    /\ rx_state[r] = "live"
    /\ rx_state' = [rx_state EXCEPT ![r] = "dropped"]
    /\ UNCHANGED <<bus_sent, rx_chan, rx_next, rx_start, rx_got, pub_count,
                   pub_result>>

BusNext ==
    \/ \E c \in BusClones, r \in Subscribers : BusSubscribe(c, r)
    \/ \E c \in BusClones, ev \in BusEvents : BusPublishEvent(c, ev)
    \/ \E r \in Subscribers : BusRecv(r)
    \/ \E r \in Subscribers : BusDrop(r)

(***************************************************************************)
(* Coordinator and configuration manager: src/src/coordinator.rs,          *)
(* src/src/config.rs, src/src/app_context.rs                               *)
(***************************************************************************)

\* A parsed configuration: its version field, whether validate() accepts it,
\* and the content of its hot-reloadable sections.
Configs == [version : {1}, valid : {TRUE}, content : 1..MaxContent]

\* No configuration (a projection that was never built).
NoConfig == [version |-> 0, valid |-> FALSE, content |-> 0]

\* What the file can hold: a configuration that loads, or one that fails in
\* fs::read_to_string, in serde_yaml::from_str, in the version check or in
\* validate().
DiskContents ==
    [readable : {TRUE}, yaml : {TRUE}, version : {1}, valid : {TRUE},
     content : 1..MaxContent]
    \cup {[readable |-> FALSE, yaml |-> TRUE, version |-> 1, valid |-> TRUE,
           content |-> 1],
          [readable |-> TRUE, yaml |-> FALSE, version |-> 1, valid |-> TRUE,
           content |-> 1],
          [readable |-> TRUE, yaml |-> TRUE, version |-> 2, valid |-> TRUE,
           content |-> 1],
          [readable |-> TRUE, yaml |-> TRUE, version |-> 1, valid |-> FALSE,
           content |-> 1]}

\* serde_yaml::from_str of a readable, well-formed file
Parsed(d) == [version |-> d.version, valid |-> d.valid, content |-> d.content]

AcceptedUnchecked(cfg) == TRUE

\* the version check and validate() of load_config_from_path
Accepted(cfg) == cfg.version = 1 /\ cfg.valid

\* ConfigManager::load_config_from_path
load_config_from_path(d) ==
    IF ~d.readable THEN [ok |-> FALSE, config |-> NoConfig]
    ELSE IF ~d.yaml THEN [ok |-> FALSE, config |-> NoConfig]
    ELSE IF ~Accepted(Parsed(d)) THEN [ok |-> FALSE, config |-> NoConfig]
    ELSE [ok |-> TRUE, config |-> Parsed(d)]

\* Option::None of shared_state
NoState == [some |-> FALSE, controllers |-> NoConfig, sensors |-> NoConfig,
            mapping |-> NoConfig, color_mappings |-> NoConfig]

\* AppState::new: every projection is built from one clone of the
\* configuration; each field holds the configuration it was built from.
AppStateNew(cfg) ==
    [some |-> TRUE, controllers |-> cfg, sensors |-> cfg, mapping |-> cfg,
     color_mappings |-> cfg]

Providers == {"MonitoringService", "BroadcastService", "FanColorService",
              "ConfigWatcherService", "DBusService"}

\* ServiceProvider::priority of the five providers
priority(p) ==
    CASE p = "MonitoringService" -> 10
      [] p = "DBusService" -> 8
      [] p = "ConfigWatcherService" -> 6
      [] p = "FanColorService" -> 4
      [] p = "BroadcastService" -> 3

\* ServiceProvider::is_critical of the five providers
is_critical(p) == p \in {"MonitoringService", "DBusService"}

\* the vec! of register_service_providers, and the push of the D-Bus
\* provider when DBusServiceProvider::new succeeded
Registered(dbus) ==
    <<"MonitoringService", "BroadcastService", "FanColorService",
      "ConfigWatcherService">> \o (IF dbus THEN <<"DBusService">> ELSE <<>>)

RECURSIVE InsertByPriority(_, _)
\* stable insertion: p goes behind every element of priority >= its own
InsertByPriority(sorted, p) ==
    IF sorted = <<>> THEN <<p>>
    ELSE IF priority(Head(sorted)) >= priority(p)
         THEN <<Head(sorted)>> \o InsertByPriority(Tail(sorted), p)
         ELSE <<p>> \o sorted

RECURSIVE SortByPriority(_)
SortByPriority(v) ==
    IF v = <<>> THEN <<>>
    ELSE InsertByPriority(SortByPriority(SubSeq(v, 1, Len(v) - 1)), v[Len(v)])

RegistrationOrder(v) == v

\* providers.sort_by_key(|b| Reverse(b.priority()))
SortedProviders(v) == SortByPriority(v)

AbortsOnAnyError(p) == TRUE

\* the guard of the arm `Err(e) if is_critical`
AbortsStartup(p) == is_critical(p)

RECURSIVE StartLoop(_, _, _)
\* The for loop of start_all_services from provider i on, when provider p's
\* start returns res[p]: the start calls it makes and what it returns.
StartLoop(ps, i, res) ==
    IF i > Len(ps) THEN [calls |-> <<>>, result |-> "ok", cause |-> "none"]
    ELSE IF res[ps[i]] = "err" /\ AbortsStartup(ps[i])
         THEN [calls |-> <<[name |-> ps[i], result |-> "err"]>>,
               result |-> "err", cause |-> ps[i]]
         ELSE LET rest == StartLoop(ps, i + 1, res)
              IN  [calls |-> <<[name |-> ps[i], result |-> res[ps[i]]]>>
                             \o rest.calls,
                   result |-> rest.result, cause |-> rest.cause]

\* what the providers' start calls return in one start_all_services: at
\* most MaxFailures of them fail
StartResults ==
    {res \in [Providers -> {"ok", "err"}] :
        Cardinality({p \in Providers : res[p] = "err"}) <= MaxFailures}

\* what event_rx.recv() of the main loop returns; RecvError::Closed is left
\* out because the coordinator itself holds a sender of the bus
MainLoopEvents == {"HotReload", "ColdRestart", "SystemShutdown",
                   "TemperatureChanged", "Lagged"}

NoReturn == [op |-> "none", result |-> "none", cause |-> "none"]

CoStart(cfg) ==
    /\ config = cfg
    /\ disk = [readable |-> TRUE, yaml |-> TRUE, version |-> config.version,
               valid |-> config.valid, content |-> config.content]
    /\ shared_state = NoState
    /\ service_providers = <<>>
    /\ co_pc = "idle"
    /\ co_tasks = {}
    /\ co_token = FALSE
    /\ start_calls = <<>>
    /\ co_ret = NoReturn
    /\ co_calls = 0
    /\ co_events = 0
    /\ last_event = "none"
    /\ interval_cfg = NoConfig

\* SystemCoordinator::new, with the configuration ConfigManager::load read
CoInit == \E cfg \in Configs : CoStart(cfg)

\* the same with one fixed configuration
CoIdle == CoStart([version |-> 1, valid |-> TRUE, content |-> 1])

\* SystemCoordinator::initialize.  outcome: the step that fails, if any;
\* dbus: whether DBusServiceProvider::new succeeds.
initialize(outcome, dbus) ==
    /\ co_pc = "idle"
    /\ co_calls < MaxCalls
    /\ co_calls' = co_calls + 1
    /\ shared_state' = IF outcome = "provide" THEN shared_state
                       ELSE AppStateNew(config)
    /\ service_providers' = IF outcome = "ok"
                            THEN SortedProviders(Registered(dbus))
                            ELSE service_providers
    /\ co_ret' = [op |-> "initialize",
                  result |-> IF outcome = "ok" THEN "ok" ELSE "err",
                  cause |-> outcome]
    /\ start_calls' = <<>>
    /\ co_events' = 0
    /\ last_event' = "none"
    /\ UNCHANGED <<config, disk, co_pc, co_tasks, co_token, interval_cfg>>
    /\ UNCHANGED coOthers

\* SystemCoordinator::start_all_services.  res: what each provider's start
\* returns (a start that returns Ok has registered its task).
start_all_services(res) ==
    /\ co_pc = "idle"
    /\ co_calls < MaxCalls
    /\ co_calls' = co_calls + 1
    /\ LET r == StartLoop(service_providers, 1, res)
       IN  /\ start_calls' = r.calls
           /\ co_tasks' = co_tasks \cup
                  {r.calls[i].name : i \in {j \in DOMAIN r.calls :
                                               r.calls[j].result = "ok"}}
           /\ co_ret' = [op |-> "start_all_services", result |-> r.result,
                         cause |-> r.cause]
    /\ co_events' = 0
    /\ last_event' = "none"
    /\ UNCHANGED <<config, disk, shared_state, service_providers, co_pc,
                   co_token, interval_cfg>>
    /\ UNCHANGED coOthers

\* run_monitoring_service up to its loop: the interval is built once, from
\* the tick_seconds of the configuration at that moment.
MonitoringBegin ==
    /\ "MonitoringService" \in co_tasks
    /\ interval_cfg = NoConfig
    /\ interval_cfg' = config
    /\ UNCHANGED <<config, disk, shared_state, service_providers, co_pc,
                   co_tasks, co_token, start_calls, co_ret, co_calls,
                   co_events, last_event>>
    /\ UNCHANGED coOthers

\* SystemCoordinator::run_main_loop up to its loop
run_main_loop ==
    /\ co_pc = "idle"
    /\ co_calls < MaxCalls
    /\ co_calls' = co_calls + 1
    /\ co_pc' = "loop"
    /\ co_events' = 0
    /\ last_event' = "none"
    /\ start_calls' = <<>>
    /\ co_ret' = NoReturn
    /\ UNCHANGED <<config, disk, shared_state, service_providers, co_tasks,
                   co_token, interval_cfg>>
    /\ UNCHANGED coOthers

\* The ctrl_c arm of the select!: shutdown() and break on Ok, bail! on Err.
CtrlC(signal) ==
    /\ co_pc = "loop"
    /\ co_pc' = "idle"
    /\ last_event' = "ctrl_c"
    /\ IF signal = "ok"
       THEN /\ co_tasks' = {}
            /\ co_token' = TRUE
            /\ co_ret' = [op |-> "run_main_loop", result |-> "ok",
                          cause |-> "none"]
       ELSE /\ co_ret' = [op |-> "run_main_loop", result |-> "err",
                          cause |-> "signal"]
            /\ UNCHANGED <<co_tasks, co_token>>
    /\ UNCHANGED <<config, disk, shared_state, service_providers,
                   start_calls, co_calls, co_events, interval_cfg>>
    /\ UNCHANGED coOthers

\* The recv arm of the select!: handle_event(event)?, with
\* handle_config_change, handle_hot_reload, ConfigManager::reload and
\* shutdown as they are called from it.
handle_event(ev) ==
    /\ co_pc = "loop"
    /\ co_events < MaxEvents
    /\ co_events' = co_events + 1
    /\ last_event' = ev
    /\ LET l == load_config_from_path(disk)
       IN  CASE ev = "HotReload" /\ shared_state.some /\ l.ok ->
                  /\ config' = l.config
                  /\ UNCHANGED <<co_pc, co_tasks, co_token, co_ret>>
             [] ev = "HotReload" /\ shared_state.some /\ ~l.ok ->
                  /\ co_pc' = "idle"
                  /\ co_ret' = [op |-> "run_main_loop", result |-> "err",
                                cause |-> "reload"]
                  /\ UNCHANGED <<config, co_tasks, co_token>>
             [] ev = "SystemShutdown" ->
                  /\ co_tasks' = {}
                  /\ co_token' = TRUE
                  /\ co_pc' = "idle"
                  /\ co_ret' = [op |-> "run_main_loop", result |-> "err",
                                cause |-> "System shutdown requested"]
                  /\ UNCHANGED config
             [] OTHER ->
                  UNCHANGED <<config, co_pc, co_tasks, co_token, co_ret>>
    /\ UNCHANGED <<disk, shared_state, service_providers, start_calls,
                   co_calls, interval_cfg>>
    /\ UNCHANGED coOthers

\* Somebody rewrites the configuration file while the main loop runs and
\* has events to handle (the file is read only by the reload of the main
\* loop).
DiskWrite(d) ==
    /\ co_pc = "loop"
    /\ co_events < MaxEvents
    /\ d # disk
    /\ disk' = d
    /\ UNCHANGED <<config, shared_state, service_providers, co_pc, co_tasks,
                   co_token, start_calls, co_ret, co_calls, co_events,
                   last_event, interval_cfg>>
    /\ UNCHANGED coOthers

CoNext ==
    \/ \E outcome \in {"ok", "provide", "send_init"}, dbus \in BOOLEAN :
           initialize(outcome, dbus)
    \/ \E res \in StartResults : start_all_services(res)
    \/ MonitoringBegin
    \/ run_main_loop
    \/ \E signal \in {"ok", "err"} : CtrlC(signal)
    \/ \E ev \in MainLoopEvents : handle_event(ev)
    \/ \E d \in DiskContents : DiskWrite(d)

(***************************************************************************)
(* Config watcher and its filesystem events:                               *)
(* src/src/providers/config_watcher.rs                                     *)
(***************************************************************************)

\* config_path, and another file of the watched directory
ConfigPath == [dir |-> "watched", name |-> "config.yml"]
OtherPath == [dir |-> "watched", name |-> "other.txt"]

\* notify::EventKind as far as is_modify() and is_create() tell kinds apart
FsEventKinds == {"modify", "create", "remove"}

\* Some(Ok(event)) for each kind and path, and Some(Err(e))
FsEvents ==
    [kind : FsEventKinds, paths : {<<ConfigPath>>, <<OtherPath>>}]
    \cup {[kind |-> "error", paths |-> <<>>]}

AnyPathAffects(paths) == TRUE

\* event.paths.iter().any(|path| is_exact_match || is_filename_match)
affects_config(paths) ==
    \E i \in DOMAIN paths :
        \/ paths[i] = ConfigPath
        \/ paths[i].name = ConfigPath.name

\* event.kind.is_modify() || event.kind.is_create()
is_relevant_event(kind) == kind \in {"modify", "create"}

\* ConfigManager::analyze_config_changes: HotReload, ColdRestart, or the
\* error of a file that cannot be loaded
AnalyzeOutcomes == {"HotReload", "ColdRestart", "err"}

\* Duration::from_millis(2000), the period of debounce_interval
DebounceMs == 2000

\* the step of the model's clock
HalfPeriod == DebounceMs \div 2

NotArmed == 0 - 1

\* tokio::time::Interval::poll_tick with MissedTickBehavior::Skip: the
\* deadline after a tick that completes at now for the deadline timeout
next_timeout(timeout, now) ==
    IF now > timeout
    THEN now + DebounceMs - ((now - timeout) % DebounceMs)
    ELSE timeout + DebounceMs

CwInit ==
    /\ cw_pc = "select"
    /\ cw_exists = TRUE
    /\ cw_rx = <<>>
    /\ cw_has_pending_event = FALSE
    /\ cw_published = <<>>
    /\ cw_since = {}
    /\ cw_emitted = 0
    /\ cw_now = 0
    /\ cw_deadline = 0
    /\ cw_armed_at = NotArmed
    /\ cw_matches = {}
    /\ cw_analyses = <<>>

\* Something happens in the watched directory and the notify handler sends
\* the event: a file is created, modified or removed.
FsChange(e) ==
    /\ e.kind # "error"
    /\ cw_pc = "select"
    /\ cw_emitted < MaxFsEvents
    /\ Len(cw_rx) < MaxFsQueue
    /\ e.paths = <<ConfigPath>> => (cw_exists <=> e.kind # "create")
    /\ cw_exists' = IF e.paths = <<ConfigPath>> THEN e.kind # "remove"
                    ELSE cw_exists
    /\ cw_rx' = Append(cw_rx, e)
    /\ cw_emitted' = cw_emitted + 1
    /\ UNCHANGED <<cw_pc, cw_has_pending_event, cw_published, cw_since,
                   cw_now, cw_deadline, cw_armed_at, cw_matches, cw_analyses>>
    /\ UNCHANGED cwOthers

\* The notify backend reports an error: the handler sends Err(e).
FsError ==
    /\ cw_pc = "select"
    /\ cw_emitted < MaxFsEvents
    /\ Len(cw_rx) < MaxFsQueue
    /\ cw_rx' = Append(cw_rx, [kind |-> "error", paths |-> <<>>])
    /\ cw_emitted' = cw_emitted + 1
    /\ UNCHANGED <<cw_pc, cw_exists, cw_has_pending_event, cw_published,
                   cw_since, cw_now, cw_deadline, cw_armed_at, cw_matches,
                   cw_analyses>>
    /\ UNCHANGED cwOthers

\* event_result = event_rx.recv() => ...
CwRecv ==
    /\ cw_pc = "select"
    /\ cw_rx # <<>>
    /\ LET e == Head(cw_rx)
           arms == /\ e.kind # "error"
                   /\ affects_config(e.paths)
                   /\ is_relevant_event(e.kind)
       IN  /\ cw_has_pending_event' =
                  IF arms THEN TRUE ELSE cw_has_pending_event
           /\ cw_since' = cw_since \cup {e}
           /\ cw_armed_at' = IF arms /\ ~cw_has_pending_event THEN cw_now
                             ELSE cw_armed_at
           /\ cw_matches' = IF arms THEN cw_matches \cup {cw_now}
                            ELSE cw_matches
    /\ cw_rx' = Tail(cw_rx)
    /\ UNCHANGED <<cw_pc, cw_exists, cw_published, cw_emitted, cw_now,
                   cw_deadline, cw_analyses>>
    /\ UNCHANGED cwOthers

\* _ = debounce_interval.tick(), if has_pending_event => ...
\* The interval is created once, before the loop, and its tick is polled
\* only while has_pending_event holds: the tick completes as soon as the
\* stored deadline has passed.
\* analysis: what analyze_config_changes returns; sent: whether publish
\* succeeds (it fails without a subscriber).
CwDebounce(analysis, sent) ==
    /\ cw_pc = "select"
    /\ cw_has_pending_event
    /\ cw_now >= cw_deadline
    /\ cw_deadline' = next_timeout(cw_deadline, cw_now)
    /\ cw_has_pending_event' = FALSE
    /\ cw_armed_at' = NotArmed
    /\ cw_analyses' =
           IF cw_exists
           THEN Append(cw_analyses, [at |-> cw_now, armed |-> cw_armed_at])
           ELSE cw_analyses
    /\ IF cw_exists /\ analysis # "err" /\ sent
       THEN /\ cw_published' = Append(cw_published, analysis)
            /\ cw_since' = {}
       ELSE UNCHANGED <<cw_published, cw_since>>
    /\ UNCHANGED <<cw_pc, cw_exists, cw_rx, cw_emitted, cw_now, cw_matches>>
    /\ UNCHANGED cwOthers

\* () = cancel_token.cancelled() => break
CwCancelled ==
    /\ cw_pc = "select"
    /\ cw_pc' = "stopped"
    /\ UNCHANGED <<cw_exists, cw_rx, cw_has_pending_event, cw_published,
                   cw_since, cw_emitted, cw_now, cw_deadline, cw_armed_at,
                   cw_matches, cw_analyses>>
    /\ UNCHANGED cwOthers

\* Time passes while the loop waits in select!: no event is waiting in
\* event_rx, and the enabled tick is not due.
CwTimePasses ==
    /\ cw_pc = "select"
    /\ cw_rx = <<>>
    /\ ~(cw_has_pending_event /\ cw_now >= cw_deadline)
    /\ cw_now < MaxHalfPeriods * HalfPeriod
    /\ cw_now' = cw_now + HalfPeriod
    /\ UNCHANGED <<cw_pc, cw_exists, cw_rx, cw_has_pending_event,
                   cw_published, cw_since, cw_emitted, cw_deadline,
                   cw_armed_at, cw_matches, cw_analyses>>
    /\ UNCHANGED cwOthers

CwNext ==
    \/ \E e \in FsEvents : FsChange(e)
    \/ FsError
    \/ CwRecv
    \/ \E analysis \in AnalyzeOutcomes, sent \in BOOLEAN :
           CwDebounce(analysis, sent)
    \/ CwCancelled
    \/ CwTimePasses

(***************************************************************************)
(* Change classifier: ConfigManager::analyze_config_changes, called at     *)
(* src/src/providers/config_watcher.rs:216 and src/src/interface.rs:78;    *)
(* its body is specified in spec.md, section 4.9                           *)
(***************************************************************************)

\* a configuration as the classifier sees it: the two hardware sections
\* and the hot-reloadable rest, each compared by value
ClConfigs ==
    [controllers : 1..MaxSectionValues,
     sensors : 1..MaxSectionValues,
     rest : 1..MaxSectionValues]

\* a file that cannot be read or parsed
NoFile == [controllers |-> 0, sensors |-> 0, rest |-> 0]

NoResult == [kind |-> "none", changed_sections |-> <<>>]

ControllersOnly(old, new) ==
    IF old.controllers # new.controllers THEN <<"controllers">> ELSE <<>>

\* the hardware sections that differ, controllers first
changed_sections(old, new) ==
    (IF old.controllers # new.controllers THEN <<"controllers">> ELSE <<>>)
    \o (IF old.sensors # new.sensors THEN <<"sensors">> ELSE <<>>)

\* ColdRestart { changed_sections } if a hardware section differs,
\* HotReload otherwise
classify(old, new) ==
    IF changed_sections(old, new) # <<>>
    THEN [kind |-> "ColdRestart",
          changed_sections |-> changed_sections(old, new)]
    ELSE [kind |-> "HotReload", changed_sections |-> <<>>]

ClStart(mem, file) ==
    /\ cl_mem = mem
    /\ cl_file = file
    /\ cl_result = NoResult
    /\ cl_calls = 0

ClInit == \E mem \in ClConfigs, file \in ClConfigs \cup {NoFile} :
              ClStart(mem, file)

ClIdle == ClStart([controllers |-> 1, sensors |-> 1, rest |-> 1],
                  [controllers |-> 1, sensors |-> 1, rest |-> 1])

\* analyze_config_changes: re-parse the file and diff it against the
\* in-memory copy
analyze_config_changes ==
    /\ cl_calls < MaxClassifierSteps
    /\ cl_calls' = cl_calls + 1
    /\ cl_result' = IF cl_file = NoFile
                    THEN [kind |-> "err", changed_sections |-> <<>>]
                    ELSE classify(cl_mem, cl_file)
    /\ UNCHANGED <<cl_mem, cl_file>>
    /\ UNCHANGED clOthers

\* The operator edits the configuration file.
ClFileEdit(file) ==
    /\ cl_calls < MaxClassifierSteps
    /\ file # cl_file
    /\ cl_calls' = cl_calls + 1
    /\ cl_file' = file
    /\ cl_result' = NoResult
    /\ UNCHANGED cl_mem
    /\ UNCHANGED clOthers

ClNext ==
    \/ analyze_config_changes
    \/ \E file \in ClConfigs \cup {NoFile} : ClFileEdit(file)

(***************************************************************************)
(* Curve evaluator: Fan::compute_speed and get_speed_for_temp,             *)
(* src/src/drivers/tt_riing_quad/controller.rs                             *)
(* Temperatures, speeds and control points are integers; the arithmetic    *)
(* is exact, the Bezier parameter is a dyadic fraction k / 2^n.            *)
(***************************************************************************)

\* temperatures of curve points, speeds (u8) and control points stored
TempGrid == {0, 2, 4}
SpeedGrid == {0, 25, 200}
ConstantSpeeds == {0, 50, 200}
BezierPoints == {<<0, 0>>, <<2, 60>>, <<4, 100>>, <<4, 200>>}

\* temperatures compute_speed is called with
CvTemps == 0 - 1 .. 5

SeqsOf(S, lens) == UNION {[1..n -> S] : n \in lens}

StepCurves ==
    UNION {[kind : {"StepCurve"}, temps : [1..n -> TempGrid],
            speeds : [1..n -> SpeedGrid], points : {<<>>}, speed : {0}]
           : n \in 1..MaxPoints}

ConstantCurves ==
    [kind : {"Constant"}, temps : {<<>>}, speeds : {<<>>},
     points : {<<>>}, speed : ConstantSpeeds]

BezierCurves ==
    [kind : {"BezierCurve"}, temps : {<<>>}, speeds : {<<>>},
     points : SeqsOf(BezierPoints, {3, 4}), speed : {0}]

FanCurves == StepCurves \cup ConstantCurves \cup BezierCurves

NoDuty == [ok |-> FALSE, duty |-> 0, err |-> "not called"]
Duty(d) == [ok |-> TRUE, duty |-> d, err |-> ""]
CurveError(e) == [ok |-> FALSE, duty |-> 0, err |-> e]

\* the integer below num / den, for num >= 0
Truncated(num, den) == num \div den

\* f32::round of num / den, for num >= 0 and den > 0: half away from zero
round(num, den) == (2 * num + den) \div (2 * den)

\* .clamp(0.0, 100.0) as u8
clamp(x) == IF x < 0 THEN 0 ELSE IF x > 100 THEN 100 ELSE x

\* f32 as u8 of y / den: towards zero, saturating
as_u8(y, den) ==
    IF y < 0 THEN 0
    ELSE IF y \div den > 255 THEN 255 ELSE y \div den

\* the closure of find_map on the window at i: Some(speed) or None (-1)
StepWindow(temps, speeds, i, temp) ==
    LET t0 == temps[i]
        t1 == temps[i + 1]
        s0 == speeds[i]
        s1 == speeds[i + 1]
    IN  IF t0 <= temp /\ temp <= t1
        THEN IF t1 = t0
             THEN 0     \* ratio is 0.0 / 0.0: NaN as u8 is 0
             ELSE clamp(round(s0 * (t1 - temp) + s1 * (temp - t0), t1 - t0))
        ELSE 0 - 1

\* temps.windows(2).zip(speeds.windows(2)).find_map(...)
RECURSIVE StepSearch(_, _, _, _)
StepSearch(temps, speeds, i, temp) ==
    IF i + 1 > Len(temps) \/ i + 1 > Len(speeds)
    THEN CurveError("Temperature not found in curve")
    ELSE IF StepWindow(temps, speeds, i, temp) >= 0
         THEN Duty(StepWindow(temps, speeds, i, temp))
         ELSE StepSearch(temps, speeds, i + 1, temp)

Pow2(n) == 2 ^ n

\* compute_bezier_at_t(pts, t) for t = k / 2^n, scaled by 2^(3n)
compute_bezier_at_t(pts, k, n) ==
    LET u == Pow2(n) - k
        B(c) == u * u * u * pts[1][c] + 3 * u * u * k * pts[2][c]
                + 3 * u * k * k * pts[3][c] + k * k * k * pts[4][c]
    IN  <<B(1), B(2)>>

\* the loop of get_speed_for_temp at its iteration n, with
\* t_low = low / 2^(n-1) and t_high = high / 2^(n-1); the result is p.y
\* scaled by 2^(3n), with that scale
RECURSIVE BezierSearch(_, _, _, _, _)
BezierSearch(pts, temp, low, high, n) ==
    LET mid == low + high
        p == compute_bezier_at_t(pts, mid, n)
        scale == Pow2(3 * n)
    IN  IF p[1] = temp * scale \/ n = BezierIterations
        THEN <<p[2], scale>>
        ELSE IF p[1] < temp * scale
             THEN BezierSearch(pts, temp, mid, 2 * high, n + 1)
             ELSE BezierSearch(pts, temp, 2 * low, mid, n + 1)

get_speed_for_temp(pts, temp) == BezierSearch(pts, temp, 0, 1, 1)

\* Fan::compute_speed on the active curve
curve_speed(curve, temp) ==
    CASE curve.kind = "Constant" -> Duty(curve.speed)
      [] curve.kind = "StepCurve" ->
             StepSearch(curve.temps, curve.speeds, 1, temp)
      [] curve.kind = "BezierCurve" ->
             IF Len(curve.points) # 4
             THEN CurveError("Bezier curve must have 4 points")
             ELSE LET y == get_speed_for_temp(curve.points, temp)
                  IN  Duty(as_u8(y[1], y[2]))

CvStart(curve, temp) ==
    /\ cv_curve = curve
    /\ cv_temp = temp
    /\ cv_result = NoDuty

CvInit == \E curve \in FanCurves, temp \in CvTemps : CvStart(curve, temp)

CvIdle == CvStart([kind |-> "Constant", temps |-> <<>>, speeds |-> <<>>,
                   points |-> <<>>, speed |-> 50], 0)

\* fan.compute_speed(temp)
CvComputeSpeed ==
    /\ cv_result = NoDuty
    /\ cv_result' = curve_speed(cv_curve, cv_temp)
    /\ UNCHANGED <<cv_curve, cv_temp>>
    /\ UNCHANGED cvOthers

CvNext == CvComputeSpeed

(***************************************************************************)
(* Controller operations by channel: TTRiingQuad and Fan,                  *)
(* src/src/drivers/tt_riing_quad/ttriing_quad.rs, controller.rs            *)
(***************************************************************************)

\* the channels the operations are called with: 0, the channels of the
\* fans, and one past them
DrChannels == 0..DrFanCount + 1

Constant50 == [kind |-> "Constant", temps |-> <<>>, speeds |-> <<>>,
               points |-> <<>>, speed |-> 50]
Constant200 == [kind |-> "Constant", temps |-> <<>>, speeds |-> <<>>,
                points |-> <<>>, speed |-> 200]
Step04 == [kind |-> "StepCurve", temps |-> <<0, 4>>, speeds |-> <<0, 25>>,
           points |-> <<>>, speed |-> 0]

\* curve data update_curve_data is called with
DrCurveData == {Constant50, Constant200, Step04}

\* curve names the operations are called with; no fan has "Missing"
DrCurveNames == {"Constant", "StepCurve", "Missing"}

\* temperatures update_channel is called with: inside and outside Step04
DrTemps == {1, 5}

\* (speed, rpm) of a Response::Data
DrReadings == {[kind |-> "data", speed |-> 25, rpm |-> 900]}

\* what the device answers to the requests of one call
DrReplies ==
    {[kind |-> k, speed |-> 0, rpm |-> 0] : k \in {"set_err", "get_err"}}
    \cup DrReadings

\* a request as the device sees it
Request(cmd, port, arg) == [cmd |-> cmd, port |-> port, arg |-> arg]

DrPanic == 0 - 1

\* (channel - 1) as usize on a u8: channel 0 panics where overflow checks
\* are compiled in, and wraps to 255 where they are not
ChannelIndex(channel) ==
    IF channel = 0 THEN {DrPanic, 255} ELSE {channel - 1}

\* (idx + 1) as u8
Port(idx) == (idx + 1) % 256

\* Vec::get(idx) is Some
HasFan(fans, idx) == idx + 1 \in DOMAIN fans

\* value: the curve name a call was given or returned; temp and reading:
\* the temperature update_channel was given and the Data it read
DrReturn(op, channel, result, value) ==
    [op |-> op, channel |-> channel, result |-> result, value |-> value,
     temp |-> 0, reading |-> <<0, 0>>]

\* Fan::compute_speed: the curve of the active name, evaluated
compute_speed(fan, temp) ==
    IF fan.active_curve \notin DOMAIN fan.curve
    THEN CurveError("Curve not found")
    ELSE curve_speed(fan.curve[fan.active_curve], temp)

KeepStats(fan, speed, rpm) == fan

\* Fan::update_stats
update_stats(fan, speed, rpm) ==
    [fan EXCEPT !.current_rpm = rpm, !.current_speed = speed]

SwitchesAnyway(fan, curve) ==
    [ok |-> TRUE, fan |-> [fan EXCEPT !.active_curve = curve]]

\* Fan::update_curve
update_curve(fan, curve) ==
    IF curve \in DOMAIN fan.curve
    THEN [ok |-> TRUE, fan |-> [fan EXCEPT !.active_curve = curve]]
    ELSE [ok |-> FALSE, fan |-> fan]

AnyKindEq(a, b) == TRUE

\* FanCurve::eq: the same variant
FanCurveEq(a, b) == a.kind = b.kind

\* Fan::update_curve_data: both failures are anyhow!("Curve not found")
fan_update_curve_data(fan, curve, curve_data) ==
    IF curve \in DOMAIN fan.curve /\ FanCurveEq(fan.curve[curve], curve_data)
    THEN [ok |-> TRUE, fan |-> [fan EXCEPT !.curve[curve] = curve_data]]
    ELSE [ok |-> FALSE, fan |-> fan]

\* find_controllers: readings 0, the active curve and the curves of the
\* configuration
DrInit ==
    /\ dr_fans = [i \in 1..DrFanCount |->
                    [current_speed |-> 0, current_rpm |-> 0,
                     active_curve |-> "Constant",
                     curve |-> [n \in {"Constant", "StepCurve"} |->
                                  IF n = "Constant" THEN Constant50
                                  ELSE Step04]]]
    /\ dr_dev = <<>>
    /\ dr_ret = DrReturn("none", 0, "none", "")

\* TTRiingQuad::update_channel -> process_fan -> proccess_fan_inner
update_channel(channel, temp, reply) ==
    \E idx \in ChannelIndex(channel) :
        LET ret(r) ==
                [DrReturn("update_channel", channel, r, "") EXCEPT
                    !.temp = temp,
                    !.reading = IF r = "ok" THEN <<reply.speed, reply.rpm>>
                                ELSE <<0, 0>>]
        IN  /\ IF idx = DrPanic \/ ~HasFan(dr_fans, idx)
               THEN \* the subtraction, or guard.fans[idx], panics
                    /\ dr_ret' = ret("panic")
                    /\ dr_dev' = <<>>
                    /\ UNCHANGED dr_fans
               ELSE LET speed == compute_speed(dr_fans[idx + 1], temp)
                        set == Request("set_speed", Port(idx), speed.duty)
                        get == Request("get_data", Port(idx), 0)
                    IN  CASE ~speed.ok ->
                                 /\ dr_ret' = ret("err")
                                 /\ dr_dev' = <<>>
                                 /\ UNCHANGED dr_fans
                          [] speed.ok /\ reply.kind = "set_err" ->
                                 /\ dr_ret' = ret("err")
                                 /\ dr_dev' = <<set>>
                                 /\ UNCHANGED dr_fans
                          [] speed.ok /\ reply.kind = "get_err" ->
                                 /\ dr_ret' = ret("err")
                                 /\ dr_dev' = <<set, get>>
                                 /\ UNCHANGED dr_fans
                          [] OTHER ->
                                 /\ dr_ret' = ret("ok")
                                 /\ dr_dev' = <<set, get>>
                                 /\ dr_fans' =
                                      [dr_fans EXCEPT ![idx + 1] =
                                         update_stats(@, reply.speed, reply.rpm)]
            /\ UNCHANGED drOthers

\* TTRiingQuad::update_channel_color -> process_fan_color ->
\* proccess_fan_inner_color: the fans are not looked at
update_channel_color(channel, sent) ==
    \E idx \in ChannelIndex(channel) :
        LET ret(r) == DrReturn("update_channel_color", channel, r, "")
        IN  /\ IF idx = DrPanic
               THEN /\ dr_ret' = ret("panic")
                    /\ dr_dev' = <<>>
               ELSE /\ dr_ret' = ret(IF sent THEN "ok" ELSE "err")
                    /\ dr_dev' = <<Request("set_rgb", Port(idx), 36)>>
            /\ UNCHANGED dr_fans
            /\ UNCHANGED drOthers

\* TTRiingQuad::switch_curve
switch_curve(channel, curve) ==
    \E idx \in ChannelIndex(channel) :
        LET ret(r) == DrReturn("switch_curve", channel, r, curve)
        IN  /\ dr_dev' = <<>>
            /\ CASE idx = DrPanic ->
                        dr_ret' = ret("panic") /\ UNCHANGED dr_fans
                 [] idx # DrPanic /\ ~HasFan(dr_fans, idx) ->
                        dr_ret' = ret("Fan not found") /\ UNCHANGED dr_fans
                 [] OTHER ->
                        LET r == update_curve(dr_fans[idx + 1], curve)
                        IN  /\ dr_ret' = ret(IF r.ok THEN "ok"
                                             ELSE "Curve not found")
                            /\ dr_fans' = [dr_fans EXCEPT ![idx + 1] = r.fan]
            /\ UNCHANGED drOthers

\* TTRiingQuad::get_active_curve
get_active_curve(channel) ==
    \E idx \in ChannelIndex(channel) :
        LET ret(r, v) == DrReturn("get_active_curve", channel, r, v)
        IN  /\ dr_dev' = <<>>
            /\ dr_ret' = CASE idx = DrPanic -> ret("panic", "")
                           [] idx # DrPanic /\ ~HasFan(dr_fans, idx) ->
                                  ret("Fans not found", "")
                           [] OTHER ->
                                  ret("ok", dr_fans[idx + 1].active_curve)
            /\ UNCHANGED dr_fans
            /\ UNCHANGED drOthers

\* TTRiingQuad::update_curve_data
update_curve_data(channel, curve, curve_data) ==
    \E idx \in ChannelIndex(channel) :
        LET ret(r) == DrReturn("update_curve_data", channel, r, curve)
        IN  /\ dr_dev' = <<>>
            /\ CASE idx = DrPanic ->
                        dr_ret' = ret("panic") /\ UNCHANGED dr_fans
                 [] idx # DrPanic /\ ~HasFan(dr_fans, idx) ->
                        dr_ret' = ret("Fans not found") /\ UNCHANGED dr_fans
                 [] OTHER ->
                        LET r == fan_update_curve_data(dr_fans[idx + 1],
                                                       curve, curve_data)
                        IN  /\ dr_ret' = ret(IF r.ok THEN "ok"
                                             ELSE "Curve not found")
                            /\ dr_fans' = [dr_fans EXCEPT ![idx + 1] = r.fan]
            /\ UNCHANGED drOthers

DrNext ==
    \/ \E channel \in DrChannels, temp \in DrTemps, reply \in DrReplies :
           update_channel(channel, temp, reply)
    \/ \E channel \in DrChannels, sent \in BOOLEAN :
           update_channel_color(channel, sent)
    \/ \E channel \in DrChannels, curve \in DrCurveNames :
           switch_curve(channel, curve)
    \/ \E channel \in DrChannels : get_active_curve(channel)
    \/ \E channel \in DrChannels, curve \in DrCurveNames,
          curve_data \in DrCurveData :
           update_curve_data(channel, curve, curve_data)

(***************************************************************************)
(* Addressing of a fan: from a target of the configuration through the     *)
(* mapping index and the controller set to the device port                 *)
(***************************************************************************)

\* FanTarget { controller, fan_idx } of the configuration
FanTargets == (1..MaxTargetControllers) \X (1..MaxTargetFans)

NoFanRef == [controller_id |-> 0, channel |-> 0]

\* the operations of Controllers the D-Bus interface calls with the
\* controller and channel it was given
InterfaceOps == {"switch_curve", "get_active_curve", "update_curve_data"}

\* load_mappings: FanRef { controller_id: target.controller as usize,
\*                         channel: target.fan_idx as usize }
FanRefOf(target) == [controller_id |-> target[1], channel |-> target[2]]

\* Controllers::update_channel is not among the methods of Controllers in
\* src/: it resolves by position controller_id - 1 (spec.md, section 4.5).
\* The place of the controller in the list counted from 1, 0 if none.
UpdateChannelPlace(controller) ==
    IF controller \in 1..MaxTargetControllers THEN controller ELSE 0

\* Controllers::switch_curve, get_active_curve, update_curve_data:
\* get(controller as usize), the element at index controller, which is at
\* place controller + 1; None is Err("Controllers not found")
ControllerPlace(op, controller) ==
    IF op = "update_channel"
    THEN UpdateChannelPlace(controller)
    ELSE IF controller + 1 \in 1..MaxTargetControllers THEN controller + 1
         ELSE 0

AdStart(target) ==
    /\ ad_pc = "config"
    /\ ad_target = target
    /\ ad_fanref = NoFanRef
    /\ ad_op = "none"
    /\ ad_call = <<0, 0>>
    /\ ad_ctrl = 0
    /\ ad_fan = 0
    /\ ad_port = 0

AdInit == \E target \in FanTargets : AdStart(target)

AdIdle == AdStart(<<1, 1>>)

\* Mapping::load_mappings
AdLoadMappings ==
    /\ ad_pc = "config"
    /\ ad_pc' = "indexed"
    /\ ad_fanref' = FanRefOf(ad_target)
    /\ UNCHANGED <<ad_target, ad_op, ad_call, ad_ctrl, ad_fan, ad_port>>
    /\ UNCHANGED adOthers

\* collect_and_process_temperatures: update_channel(controller_id, channel,
\* temp) for a fan of fans_for_sensor
AdTick ==
    /\ ad_pc = "indexed"
    /\ ad_pc' = "called"
    /\ ad_op' = "update_channel"
    /\ ad_call' = <<ad_fanref.controller_id, ad_fanref.channel>>
    /\ UNCHANGED <<ad_target, ad_fanref, ad_ctrl, ad_fan, ad_port>>
    /\ UNCHANGED adOthers

\* DBusInterface::switch_active_curve, get_active_curve, update_curve_data
\* for the same controller and fan
AdInterfaceCall(op) ==
    /\ ad_pc = "config"
    /\ ad_pc' = "called"
    /\ ad_op' = op
    /\ ad_call' = ad_target
    /\ UNCHANGED <<ad_target, ad_fanref, ad_ctrl, ad_fan, ad_port>>
    /\ UNCHANGED adOthers

\* Controllers::<op>(controller, channel, ..): resolve the controller, or
\* Err("Controllers not found")
AdResolve ==
    /\ ad_pc = "called"
    /\ ad_ctrl' = ControllerPlace(ad_op, ad_call[1])
    /\ ad_pc' = IF ad_ctrl' = 0 THEN "failed" ELSE "resolved"
    /\ UNCHANGED <<ad_target, ad_fanref, ad_op, ad_call, ad_fan, ad_port>>
    /\ UNCHANGED adOthers

\* the controller's operation: the fan at index channel - 1, and for
\* update_channel the requests set_speed(idx + 1, ..), get_data(idx + 1)
AdDeliver ==
    /\ ad_pc = "resolved"
    /\ ad_pc' = "done"
    /\ \E idx \in ChannelIndex(ad_call[2]) :
           /\ idx # DrPanic
           /\ ad_fan' = idx + 1
           /\ ad_port' = IF ad_op = "update_channel" THEN Port(idx) ELSE 0
    /\ UNCHANGED <<ad_target, ad_fanref, ad_op, ad_call, ad_ctrl>>
    /\ UNCHANGED adOthers

AdNext ==
    \/ AdLoadMappings
    \/ AdTick
    \/ \E op \in InterfaceOps : AdInterfaceCall(op)
    \/ AdResolve
    \/ AdDeliver

(***************************************************************************)
(* Status requests: Controller::request, init, set_speed, set_rgb and      *)
(* Response::parse, src/src/drivers/tt_riing_quad/controller.rs,           *)
(* protocol.rs, device_io.rs                                               *)
(***************************************************************************)

\* protocol_consts::RESPONSE_LEN and STATUS_OFFSET, and the status of success
RESPONSE_LEN == 193
STATUS_OFFSET == 2
StatusOk == 252

\* the commands answered with a status
StatusCommands == {"Init", "SetSpeed", "SetRgb"}

\* status bytes the device answers with: 0xFC, 0x00, 0x01, 0xFE, 0xFF
StatusBytes == {StatusOk, 0, 1, 254, 255}

\* results of HidDevice::read_timeout: an error, nothing within the
\* timeout, a short read, the whole response
ReadResults == {0 - 1, 0, STATUS_OFFSET, RESPONSE_LEN}

NoBuf == [i \in 0..KeptBytes - 1 |-> 0]
NoStatusResult == [ok |-> FALSE, err |-> "not called"]

\* vec![0u8; expected_response_len()] after a read of n bytes of a response
\* whose byte at STATUS_OFFSET is status
BufAfterRead(n, status) ==
    [i \in 0..KeptBytes - 1 |->
        IF i < n /\ i = STATUS_OFFSET THEN status ELSE 0]

\* DeviceIO::read for HidDevice: Ok only if n > 0
ReadOk(n) == n > 0

\* Response::parse for Init, SetSpeed, SetRgb: Status(buf[STATUS_OFFSET])
parse(cmd, buf) == buf[STATUS_OFFSET]

AnyStatus(code) == TRUE

\* the arm Ok(Response::Status(0xFC)) of init, set_speed and set_rgb
IsStatusOk(code) == code = StatusOk

\* Controller::request followed by the match of init, set_speed, set_rgb
StatusRequest(cmd, write, n, buf) ==
    IF ~write THEN [ok |-> FALSE, err |-> "write"]
    ELSE IF ~ReadOk(n) THEN [ok |-> FALSE, err |-> "read"]
    ELSE IF IsStatusOk(parse(cmd, buf)) THEN [ok |-> TRUE, err |-> ""]
    ELSE [ok |-> FALSE, err |-> "Expected status 0xFC"]

PrStart(cmd, write, n, status) ==
    /\ pr_cmd = cmd
    /\ pr_write = write
    /\ pr_read = n
    /\ pr_status = status
    /\ pr_buf = NoBuf
    /\ pr_result = NoStatusResult

PrInit ==
    \E cmd \in StatusCommands, write \in BOOLEAN, n \in ReadResults,
       status \in StatusBytes : PrStart(cmd, write, n, status)

PrIdle == PrStart("Init", TRUE, RESPONSE_LEN, StatusOk)

\* init(), set_speed(port, speed) or set_rgb(port, mode, colors)
PrRequest ==
    /\ pr_result = NoStatusResult
    /\ pr_buf' = IF pr_write /\ ReadOk(pr_read)
                 THEN BufAfterRead(pr_read, pr_status) ELSE NoBuf
    /\ pr_result' = StatusRequest(pr_cmd, pr_write, pr_read, pr_buf')
    /\ UNCHANGED <<pr_cmd, pr_write, pr_read, pr_status>>
    /\ UNCHANGED prOthers

PrNext == PrRequest

(***************************************************************************)
(* Command encoding: Command::to_bytes,                                    *)
(* src/src/drivers/tt_riing_quad/protocol.rs                               *)
(***************************************************************************)

\* protocol_consts
CMD_INIT == 51
CMD_GET_FW_VERSION == 80
CMD_GET_DATA == 81
CMD_SET_SPEED == 81
CMD_SET_RGB == 82
PREFIX_0 == 0
PREFIX_1_FE == 254
PREFIX_1_32 == 50
PREFIX_1_33 == 51
SPEED_FLAG == 1

\* the ring of the driver and of the test set_rgb_bytes: 52 triplets
RingTriplets == 52

EnPorts == {1, 5}
EnSpeeds == {0, 100}
EnModes == {36}
EnColours == {0, 255} \X {0, 255} \X {0, 255}
EnColourSeqs ==
    UNION {[1..n -> EnColours] : n \in 0..MaxTriplets}
        \cup {[i \in 1..RingTriplets |-> <<1, 2, 3>>]}

\* enum Command; the fields a variant does not have are 0 and <<>>
Cmd(kind, port, speed, mode, colors) ==
    [kind |-> kind, port |-> port, speed |-> speed, mode |-> mode,
     colors |-> colors]

Commands ==
    {Cmd("Init", 0, 0, 0, <<>>), Cmd("GetFirmwareVersion", 0, 0, 0, <<>>)}
        \cup {Cmd("GetData", p, 0, 0, <<>>) : p \in EnPorts}
        \cup {Cmd("SetSpeed", p, s, 0, <<>>) : p \in EnPorts, s \in EnSpeeds}
        \cup {Cmd("SetRgb", p, 0, m, c) :
                p \in EnPorts, m \in EnModes, c \in EnColourSeqs}

\* a loop that appends the triplets last to first
ReversedTriplets(colors) ==
    LET F[k \in 0..Len(colors)] ==
            IF k = 0 THEN <<>>
            ELSE <<colors[k][1], colors[k][2], colors[k][3]>> \o F[k - 1]
    IN F[Len(colors)]

\* for &(g, r, b) in colors { buf.extend_from_slice(&[g, r, b]) }
extend_triplets(colors) ==
    LET F[k \in 0..Len(colors)] ==
            IF k = 0 THEN <<>>
            ELSE F[k - 1] \o <<colors[k][1], colors[k][2], colors[k][3]>>
    IN F[Len(colors)]

\* Command::to_bytes
to_bytes(cmd) ==
    CASE cmd.kind = "Init" -> <<PREFIX_0, PREFIX_1_FE, CMD_INIT>>
      [] cmd.kind = "GetFirmwareVersion" ->
            <<PREFIX_0, PREFIX_1_33, CMD_GET_FW_VERSION>>
      [] cmd.kind = "GetData" ->
            <<PREFIX_0, PREFIX_1_33, CMD_GET_DATA, cmd.port>>
      [] cmd.kind = "SetSpeed" ->
            <<PREFIX_0, PREFIX_1_32, CMD_SET_SPEED, cmd.port, SPEED_FLAG,
              cmd.speed>>
      [] cmd.kind = "SetRgb" ->
            <<PREFIX_0, PREFIX_1_32, CMD_SET_RGB, cmd.port, cmd.mode>>
                \o extend_triplets(cmd.colors)

EnStart(cmd) ==
    /\ en_cmd = cmd
    /\ en_bytes = <<>>

EnInit == \E cmd \in Commands : EnStart(cmd)

EnIdle == EnStart(Cmd("Init", 0, 0, 0, <<>>))

\* let pkt = cmd.to_bytes() of Controller::request
EnToBytes ==
    /\ en_bytes = <<>>
    /\ en_bytes' = to_bytes(en_cmd)
    /\ UNCHANGED en_cmd
    /\ UNCHANGED enOthers

EnNext == EnToBytes

(***************************************************************************)
(* GetData decoding: Response::parse,                                      *)
(* src/src/drivers/tt_riing_quad/protocol.rs                               *)
(***************************************************************************)

\* protocol_consts, and the length below which parse refuses the buffer
DATA_SPEED_OFFSET == 2
DATA_RPM_LOW_OFFSET == 3
DATA_RPM_HIGH_OFFSET == 4
DataMinLen == 5

GdBytes == {0, 16, 32, 255}
GdBufs == UNION {[1..n -> GdBytes] : n \in 0..MaxBufLen}

NotParsed == [kind |-> "not called", speed |-> 0, rpm |-> 0]
DataErr(e) == [kind |-> e, speed |-> 0, rpm |-> 0]

\* buf[i] of a slice: a panic when i is out of range
Index(buf, i) == IF i < Len(buf) THEN buf[i + 1] ELSE 0 - 1

\* a shift that stays in the width of the byte
ShlInU8(x) == (x * 256) % 256

\* u16::from(x) << 8
shl8(x) == (x * 256) % 65536

\* a | b of two u16
bitor(a, b) ==
    LET F[k \in 0..16] ==
            IF k = 0 THEN 0
            ELSE LET w == F[k - 1]
                     p == 2 ^ (16 - k)
                 IN IF (a \div p) % 2 = 1 \/ (b \div p) % 2 = 1
                    THEN w + p ELSE w
    IN F[16]

\* Response::parse, the arm Command::GetData
parse_data(buf) ==
    IF Len(buf) < DataMinLen THEN DataErr("Buf too small for Data")
    ELSE LET speed == Index(buf, DATA_SPEED_OFFSET)
             hi == Index(buf, DATA_RPM_HIGH_OFFSET)
             lo == Index(buf, DATA_RPM_LOW_OFFSET)
         IN IF speed < 0 \/ hi < 0 \/ lo < 0 THEN DataErr("panic")
            ELSE [kind |-> "Data", speed |-> speed,
                  rpm |-> bitor(shl8(hi), lo)]

GdStart(buf) ==
    /\ gd_buf = buf
    /\ gd_result = NotParsed

GdInit == \E buf \in GdBufs : GdStart(buf)

GdIdle == GdStart(<<>>)

\* Response::parse(Command::GetData { .. }, &buf)
GdParse ==
    /\ gd_result = NotParsed
    /\ gd_result' = parse_data(gd_buf)
    /\ UNCHANGED gd_buf
    /\ UNCHANGED gdOthers

GdNext == GdParse

(***************************************************************************)
(* Cancellation of the monitoring loop: run_monitoring_service and         *)
(* collect_and_process_temperatures, src/src/providers/monitoring.rs       *)
(***************************************************************************)

\* where the pass goes when the sensor at index i is done with
McAfterSensor(i) == IF i >= McSensorCount THEN "replace" ELSE "sensor"

\* what an await of the pass does with the token: nothing, the token is
\* looked at only by the select! of the loop
BeginsOp(begun, token, op) == IF token THEN Append(begun, op) ELSE begun

McInit ==
    /\ mc_pc = "select"
    /\ mc_token = FALSE
    /\ mc_i = 1
    /\ mc_left = 0
    /\ mc_begun = <<>>
    /\ mc_passes = 0

\* TaskManager::shutdown_all: global_token.cancel(), at any moment
McCancel ==
    /\ ~mc_token
    /\ mc_pc # "returned"
    /\ mc_token' = TRUE
    /\ UNCHANGED <<mc_pc, mc_i, mc_left, mc_begun, mc_passes>>
    /\ UNCHANGED mcOthers

\* () = cancel_token.cancelled() => break; then Ok(())
McSelectCancelled ==
    /\ mc_pc = "select"
    /\ mc_token
    /\ mc_pc' = "returned"
    /\ UNCHANGED <<mc_token, mc_i, mc_left, mc_begun, mc_passes>>
    /\ UNCHANGED mcOthers

\* _instant = interval.tick() => collect_and_process_temperatures begins;
\* select! polls its branches in random order, so a tick that is due wins
\* over a cancelled token as well
McSelectTick ==
    /\ mc_pc = "select"
    /\ mc_passes < McMaxPasses
    /\ mc_passes' = mc_passes + 1
    /\ mc_i' = 1
    /\ mc_left' = 0
    /\ mc_pc' = IF McSensorCount = 0 THEN "replace" ELSE "sensor"
    /\ UNCHANGED <<mc_token, mc_begun>>
    /\ UNCHANGED mcOthers

\* sensor.read_temperature() is called and awaited
McReadBegin ==
    /\ mc_pc = "sensor"
    /\ mc_pc' = "reading"
    /\ mc_begun' = BeginsOp(mc_begun, mc_token, "read")
    /\ UNCHANGED <<mc_token, mc_i, mc_left, mc_passes>>
    /\ UNCHANGED mcOthers

\* the read returns: Ok(temp) with n fans mapped to the sensor, or Err
McReadEnd(ok, n) ==
    /\ mc_pc = "reading"
    /\ LET fans == IF ok THEN n ELSE 0
       IN  /\ mc_left' = fans
           /\ mc_pc' = IF fans = 0 THEN McAfterSensor(mc_i) ELSE "fans"
           /\ mc_i' = IF fans = 0 THEN mc_i + 1 ELSE mc_i
    /\ UNCHANGED <<mc_token, mc_begun, mc_passes>>
    /\ UNCHANGED mcOthers

\* one iteration of the loop over the fans: the u8 conversions (an Err
\* returns from the pass), then update_channel(..) is called and awaited
McUpdateBegin(fits) ==
    /\ mc_pc = "fans"
    /\ IF fits
       THEN /\ mc_pc' = "updating"
            /\ mc_begun' = BeginsOp(mc_begun, mc_token, "update")
            /\ UNCHANGED mc_left
       ELSE /\ mc_pc' = "select"
            /\ mc_left' = 0
            /\ UNCHANGED mc_begun
    /\ UNCHANGED <<mc_token, mc_i, mc_passes>>
    /\ UNCHANGED mcOthers

\* update_channel returns; an Err is logged
McUpdateEnd(res) ==
    /\ mc_pc = "updating"
    /\ res \in {"ok", "err"}
    /\ mc_left' = mc_left - 1
    /\ mc_pc' = IF mc_left = 1 THEN McAfterSensor(mc_i) ELSE "fans"
    /\ mc_i' = IF mc_left = 1 THEN mc_i + 1 ELSE mc_i
    /\ UNCHANGED <<mc_token, mc_begun, mc_passes>>
    /\ UNCHANGED mcOthers

\* the cache is replaced, TemperatureChanged is published, the pass returns
McFinishPass ==
    /\ mc_pc = "replace"
    /\ mc_pc' = "select"
    /\ mc_i' = 1
    /\ UNCHANGED <<mc_token, mc_left, mc_begun, mc_passes>>
    /\ UNCHANGED mcOthers

McNext ==
    \/ McCancel
    \/ McSelectCancelled
    \/ McSelectTick
    \/ McReadBegin
    \/ \E ok \in BOOLEAN, n \in 0..McMaxFans : McReadEnd(ok, n)
    \/ \E fits \in BOOLEAN : McUpdateBegin(fits)
    \/ \E res \in {"ok", "err"} : McUpdateEnd(res)
    \/ McFinishPass

(***************************************************************************)
(* Color loop: run_fan_color_service and update_fan_colors_by_temperature, *)
(* src/src/providers/fan_color.rs                                          *)
(***************************************************************************)
ColorNames == {"red", "blue"}

\* fan_idx of a target, as the configuration gives it (nothing checks it)
FcChannels == {0, 1}

FcTargets == UNION {[1..n -> FcChannels] : n \in 0..MaxColorTargets}
FcMappings == [color : ColorNames, targets : FcTargets]
FcConfigs ==
    [colors : SUBSET ColorNames,
     color_mappings : UNION {[1..n -> FcMappings] : n \in 0..MaxColorMappings}]

\* what the receiver of the loop yields
FcEvents == {"TemperatureChanged", "ColorChanged", "Lagged"}

\* a lookup that lets the first missing color end the loop over the mappings
StopsAtMissing(cfg, m) ==
    IF \E j \in 1..m : cfg.color_mappings[j].color \notin cfg.colors
    THEN <<>> ELSE cfg.color_mappings[m].targets

\* config.colors.iter().find(|c| c.color == *color_name): the targets of
\* mapping m are walked if its color is defined, else the mapping is skipped
TargetsOf(cfg, m) ==
    IF cfg.color_mappings[m].color \in cfg.colors
    THEN cfg.color_mappings[m].targets ELSE <<>>

\* the update_channel_color calls of one pass, in the order of the loops
ColorCalls(cfg) ==
    LET F[m \in 0..Len(cfg.color_mappings)] ==
            IF m = 0 THEN <<>> ELSE F[m - 1] \o TargetsOf(cfg, m)
    IN F[Len(cfg.color_mappings)]

\* update_channel_color(controller, fan_idx, r, g, b): process_fan_color of
\* the driver returns Ok or Err; (channel - 1) of channel 0 panics where
\* overflow checks are compiled in
ColorOutcomes(channel) ==
    IF DrPanic \in ChannelIndex(channel)
    THEN {"ok", "err", "panic"} ELSE {"ok", "err"}

FcStart(cfg) ==
    /\ fc_cfg = cfg
    /\ fc_pc = "select"
    /\ fc_k = 1
    /\ fc_applied = <<>>
    /\ fc_pub = 0
    /\ fc_passes = [n |-> 0, by |-> "none"]

FcInit == \E cfg \in FcConfigs : FcStart(cfg)

FcIdle == FcStart([colors |-> {}, color_mappings |-> <<>>])

\* a pass begins: update_fan_colors_by_temperature is called
BeginPass(by) ==
    /\ fc_pc' = "pass"
    /\ fc_k' = 1
    /\ fc_applied' = <<>>
    /\ fc_passes' = [n |-> fc_passes.n + 1, by |-> by]

\* _instant = interval.tick() => a pass
FcTick ==
    /\ fc_pc = "select"
    /\ fc_passes.n < MaxColorPasses
    /\ BeginPass("timer")
    /\ UNCHANGED <<fc_cfg, fc_pub>>
    /\ UNCHANGED fcOthers

\* event_result = receiver.recv() => a pass on TemperatureChanged; any
\* other event and a receive error change nothing
FcRecv(ev) ==
    /\ fc_pc = "select"
    /\ fc_passes.n < MaxColorPasses
    /\ IF ev = "TemperatureChanged"
       THEN BeginPass("event")
       ELSE UNCHANGED <<fc_pc, fc_k, fc_applied, fc_passes>>
    /\ UNCHANGED <<fc_cfg, fc_pub>>
    /\ UNCHANGED fcOthers

\* one update_channel_color(..).await of the pass; an Err is logged
FcSetColor(res) ==
    /\ fc_pc = "pass"
    /\ fc_k <= Len(ColorCalls(fc_cfg))
    /\ res \in ColorOutcomes(ColorCalls(fc_cfg)[fc_k])
    /\ fc_applied' = Append(fc_applied, ColorCalls(fc_cfg)[fc_k])
    /\ fc_k' = fc_k + 1
    /\ fc_pc' = IF res = "panic" THEN "panicked" ELSE "pass"
    /\ UNCHANGED <<fc_cfg, fc_pub, fc_passes>>
    /\ UNCHANGED fcOthers

\* event_bus.publish(Event::ColorChanged) after the loops: the receiver of
\* the loop itself is alive, so the send has a receiver; the pass returns
FcPublish ==
    /\ fc_pc = "pass"
    /\ fc_k > Len(ColorCalls(fc_cfg))
    /\ fc_pub' = fc_pub + 1
    /\ fc_pc' = "select"
    /\ UNCHANGED <<fc_cfg, fc_k, fc_applied, fc_passes>>
    /\ UNCHANGED fcOthers

FcNext ==
    \/ FcTick
    \/ \E ev \in FcEvents : FcRecv(ev)
    \/ \E res \in {"ok", "err", "panic"} : FcSetColor(res)
    \/ FcPublish

(***************************************************************************)
(* Shutdown requests: DBusInterface::stop, src/src/interface.rs, and the   *)
(* main loop that receives them, src/src/coordinator.rs                    *)
(***************************************************************************)

\* Sender::subscribe: the receiver of the main loop sees what is sent once
\* run_main_loop has subscribed
Subscribed(pc) == pc \in {"loop", "busy"}

\* Sender::receiver_count at a send
ReceiverCount == (IF Subscribed(sh_pc) THEN 1 ELSE 0)
                     + (IF sh_color THEN 1 ELSE 0)

\* the control endpoint is in its loop from the start; the coordinator is
\* still in start_all_services
ShInit ==
    /\ sh_pc = "starting"
    /\ sh_rx = <<>>
    /\ sh_color = FALSE
    /\ sh_stops = <<>>

\* run_fan_color_service: let mut receiver = event_bus.subscribe()
ShColorSubscribe ==
    /\ ~sh_color
    /\ sh_pc # "stopped"
    /\ sh_color' = TRUE
    /\ UNCHANGED <<sh_pc, sh_rx, sh_stops>>
    /\ UNCHANGED shOthers

\* run_main_loop: let mut event_rx = self.event_bus.subscribe()
ShSubscribe ==
    /\ sh_pc = "starting"
    /\ sh_pc' = "loop"
    /\ UNCHANGED <<sh_rx, sh_color, sh_stops>>
    /\ UNCHANGED shOthers

\* DBusInterface::stop: the stopped signal, then publish(SystemShutdown);
\* a send without a receiver is an error returned to the caller
ShStop ==
    /\ sh_pc # "stopped"
    /\ Len(sh_stops) < MaxStops
    /\ Len(sh_rx) < MaxShQueue
    /\ sh_stops' = Append(sh_stops,
           [result |-> IF ReceiverCount > 0 THEN "ok" ELSE "err",
            subscribed |-> Subscribed(sh_pc)])
    /\ sh_rx' = IF Subscribed(sh_pc)
                THEN Append(sh_rx, "SystemShutdown") ELSE sh_rx
    /\ UNCHANGED <<sh_pc, sh_color>>
    /\ UNCHANGED shOthers

\* a service publishes another event (TemperatureChanged, ColorChanged,
\* ConfigChangeDetected) while the main loop is subscribed
ShPublishOther ==
    /\ Subscribed(sh_pc)
    /\ Len(sh_rx) < MaxShQueue
    /\ sh_rx' = Append(sh_rx, "other")
    /\ UNCHANGED <<sh_pc, sh_color, sh_stops>>
    /\ UNCHANGED shOthers

\* event = event_rx.recv() => handle_event: SystemShutdown runs shutdown(),
\* which cancels and awaits the tasks, and the loop returns; any other
\* event is handled
ShRecv ==
    /\ sh_pc = "loop"
    /\ sh_rx # <<>>
    /\ sh_pc' = IF Head(sh_rx) = "SystemShutdown" THEN "stopped" ELSE "busy"
    /\ sh_rx' = Tail(sh_rx)
    /\ UNCHANGED <<sh_color, sh_stops>>
    /\ UNCHANGED shOthers

\* handle_event returns Ok(()): back to the select!
ShHandled ==
    /\ sh_pc = "busy"
    /\ sh_pc' = "loop"
    /\ UNCHANGED <<sh_rx, sh_color, sh_stops>>
    /\ UNCHANGED shOthers

ShNext ==
    \/ ShColorSubscribe
    \/ ShSubscribe
    \/ ShStop
    \/ ShPublishOther
    \/ ShRecv
    \/ ShHandled

(***************************************************************************)
(* Start-up of the service tasks: TaskManager::spawn_task,                 *)
(* src/src/task_manager.rs, the providers' start and run_dbus_service,     *)
(* src/src/providers/dbus.rs, start_all_services, src/src/coordinator.rs   *)
(***************************************************************************)

\* the providers of a host with a message bus, as initialize leaves them
StProviders == SortedProviders(Registered(TRUE))

\* the tasks whose function can return an error before its loop:
\* run_dbus_service (object_server().at(..)?, request_name(..)?) and
\* run_config_watcher_service (the watcher cannot be created)
FailsInTask == {"DBusService", "ConfigWatcherService"}

\* TaskManager::spawn_task: tokio::spawn, tasks.insert, Ok(()); what the
\* task does is not awaited
spawn_task(p) == "ok"

StInit ==
    /\ st_i = 1
    /\ st_task = [p \in Providers |-> "unspawned"]
    /\ st_reported = {}
    /\ st_ret = "none"

\* one iteration of the loop of start_all_services: provider.start, i.e.
\* spawn_task, and the match on its result
StStart ==
    /\ st_ret = "none"
    /\ st_i <= Len(StProviders)
    /\ LET p == StProviders[st_i]
           res == spawn_task(p)
       IN  /\ st_task' = [st_task EXCEPT ![p] = "startup"]
           /\ st_reported' = IF res = "ok" THEN st_reported \cup {p}
                             ELSE st_reported
           /\ st_ret' = IF res = "err" /\ AbortsStartup(p) THEN "err"
                        ELSE st_ret
    /\ st_i' = st_i + 1
    /\ UNCHANGED stOthers

\* after the loop: Ok(())
StReturn ==
    /\ st_ret = "none"
    /\ st_i > Len(StProviders)
    /\ st_ret' = "ok"
    /\ UNCHANGED <<st_i, st_task, st_reported>>
    /\ UNCHANGED stOthers

\* the spawned task runs up to its loop, or returns the error of its
\* start-up, which the wrapper of spawn_task logs
StTaskBegins(p, ok) ==
    /\ st_task[p] = "startup"
    /\ ok \/ p \in FailsInTask
    /\ st_task' = [st_task EXCEPT ![p] = IF ok THEN "running" ELSE "failed"]
    /\ UNCHANGED <<st_i, st_reported, st_ret>>
    /\ UNCHANGED stOthers

StNext ==
    \/ StStart
    \/ StReturn
    \/ \E p \in Providers, ok \in BOOLEAN : StTaskBegins(p, ok)

(***************************************************************************)
(* Locks of the shared state: the RwLocks of AppState and ConfigManager    *)
(* and the Mutex of a controller session, as the monitoring pass, the      *)
(* color pass, the broadcast, the methods of the control endpoint and the  *)
(* hot reload take them                                                    *)
(***************************************************************************)
LkTasks == {"monitoring", "color", "broadcast", "endpoint", "coordinator"}
Locks == {"config", "sensors", "mapping", "controllers", "sensor_data",
          "session"}

Acq(lock, mode) == [op |-> "acq", lock |-> lock, mode |-> mode]
Rel(lock) == [op |-> "rel", lock |-> lock, mode |-> "-"]

\* TTRiingQuad::process_fan: the session is locked for compute_speed, in
\* the blocking task for the request, and for update_stats
process_fan_locks ==
    <<Acq("session", "W"), Rel("session"), Acq("session", "W"),
      Rel("session"), Acq("session", "W"), Rel("session")>>

\* state.config().await.tick_seconds of the two loops with an interval
IntervalLocks == <<Acq("config", "R"), Rel("config")>>

\* collect_and_process_temperatures: the sensors guard lives to the end of
\* the function, the mapping guard to the end of the loop over the fans,
\* the controllers guard to the end of the update_channel statement
MonitoringPass ==
    <<Acq("sensors", "R"), Acq("mapping", "R"), Acq("controllers", "R")>>
        \o process_fan_locks
        \o <<Rel("controllers"), Rel("mapping"), Acq("sensor_data", "W"),
             Rel("sensor_data"), Rel("sensors")>>

\* update_fan_colors_by_temperature: config and _sensor_data live to the
\* end of the function; process_fan_color locks the session once
ColorPass ==
    <<Acq("config", "R"), Acq("sensor_data", "R"), Acq("controllers", "R"),
      Acq("session", "W"), Rel("session"), Rel("controllers"),
      Rel("sensor_data"), Rel("config")>>

\* broadcast_current_state and DBusInterface::get_temperatures
CacheRead == <<Acq("sensor_data", "R"), Rel("sensor_data")>>

\* switch_active_curve, get_active_curve, get_firmware_version and
\* update_curve_data of the endpoint
CurveCall ==
    <<Acq("controllers", "R"), Acq("session", "W"), Rel("session"),
      Rel("controllers")>>

\* a reload that clones the configuration under its write guard
ReloadUnderGuard ==
    <<Acq("config", "W"), Acq("config", "R"), Rel("config"), Rel("config")>>

\* handle_hot_reload: ConfigManager::reload, then clone_config
HotReload ==
    <<Acq("config", "W"), Rel("config"), Acq("config", "R"), Rel("config")>>

Units ==
    [monitoring |-> {"interval", "monitoring_pass"},
     color |-> {"color_pass"},
     broadcast |-> {"interval", "cache_read"},
     endpoint |-> {"cache_read", "curve_call"},
     coordinator |-> {"hot_reload"}]

Program(unit) ==
    CASE unit = "interval" -> IntervalLocks
      [] unit = "monitoring_pass" -> MonitoringPass
      [] unit = "color_pass" -> ColorPass
      [] unit = "cache_read" -> CacheRead
      [] unit = "curve_call" -> CurveCall
      [] unit = "hot_reload" -> HotReload
      [] unit = "idle" -> <<>>

Queued(t) ==
    \E l \in Locks : \E i \in 1..Len(lk_queue[l]) : lk_queue[l][i] = t

\* tokio RwLock and Mutex: a read guard is given while no write guard is
\* alive, a write guard and the mutex while no guard is alive
Compatible(lock, mode) ==
    \A h \in lk_held : h.lock = lock => (mode = "R" /\ h.mode = "R")

LkInit ==
    /\ lk_unit = [t \in LkTasks |-> "idle"]
    /\ lk_pc = [t \in LkTasks |-> 1]
    /\ lk_held = {}
    /\ lk_queue = [l \in Locks |-> <<>>]

\* a task begins a unit of work
LkBegin(t, unit) ==
    /\ lk_unit[t] = "idle"
    /\ unit \in Units[t]
    /\ lk_unit' = [lk_unit EXCEPT ![t] = unit]
    /\ lk_pc' = [lk_pc EXCEPT ![t] = 1]
    /\ UNCHANGED <<lk_held, lk_queue>>
    /\ UNCHANGED lkOthers

\* the step after the one at pc: the next step, or the end of the unit
Advance(t) ==
    IF lk_pc[t] = Len(Program(lk_unit[t]))
    THEN /\ lk_unit' = [lk_unit EXCEPT ![t] = "idle"]
         /\ lk_pc' = [lk_pc EXCEPT ![t] = 1]
    ELSE /\ lk_pc' = [lk_pc EXCEPT ![t] = @ + 1]
         /\ UNCHANGED lk_unit

\* read().await, write().await, lock().await: the guard is given at once
\* if nobody waits and it is compatible, otherwise the task joins the queue
LkAcquire(t) ==
    /\ lk_unit[t] # "idle"
    /\ ~Queued(t)
    /\ LET s == Program(lk_unit[t])[lk_pc[t]]
       IN  /\ s.op = "acq"
           /\ IF lk_queue[s.lock] = <<>> /\ Compatible(s.lock, s.mode)
              THEN /\ lk_held' = lk_held \cup
                          {[task |-> t, lock |-> s.lock, mode |-> s.mode]}
                   /\ Advance(t)
                   /\ UNCHANGED lk_queue
              ELSE /\ lk_queue' = [lk_queue EXCEPT ![s.lock] = Append(@, t)]
                   /\ UNCHANGED <<lk_unit, lk_pc, lk_held>>
    /\ UNCHANGED lkOthers

\* the first waiter of a lock is given its guard when it is compatible
LkWake(t) ==
    /\ lk_unit[t] # "idle"
    /\ LET s == Program(lk_unit[t])[lk_pc[t]]
       IN  /\ s.op = "acq"
           /\ lk_queue[s.lock] # <<>>
           /\ Head(lk_queue[s.lock]) = t
           /\ Compatible(s.lock, s.mode)
           /\ lk_queue' = [lk_queue EXCEPT ![s.lock] = Tail(@)]
           /\ lk_held' = lk_held \cup
                  {[task |-> t, lock |-> s.lock, mode |-> s.mode]}
           /\ Advance(t)
    /\ UNCHANGED lkOthers

\* a guard of the task is dropped
LkRelease(t) ==
    /\ lk_unit[t] # "idle"
    /\ LET s == Program(lk_unit[t])[lk_pc[t]]
       IN  /\ s.op = "rel"
           /\ lk_held' = {h \in lk_held : ~(h.task = t /\ h.lock = s.lock)}
           /\ Advance(t)
    /\ UNCHANGED lk_queue
    /\ UNCHANGED lkOthers

LkNext ==
    \/ \E t \in LkTasks, unit \in {"interval", "monitoring_pass",
           "color_pass", "cache_read", "curve_call", "hot_reload"} :
           LkBegin(t, unit)
    \/ \E t \in LkTasks : LkAcquire(t)
    \/ \E t \in LkTasks : LkWake(t)
    \/ \E t \in LkTasks : LkRelease(t)

(***************************************************************************)
(* Fans built from a configuration: Config::validate, src/src/config.rs,   *)
(* and TTRiingQuad::find_controllers,                                      *)
(* src/src/drivers/tt_riing_quad/ttriing_quad.rs                           *)
(***************************************************************************)
CurveIds == {"A", "B"}

\* names a fan entry can give: the curve ids and one that is in no table
FanCurveNames == CurveIds \cup {"X"}

\* the curves of the configuration, by id, and one FanCfg
FbConfigs ==
    [curves : SUBSET CurveIds,
     active_curve : FanCurveNames,
     curve : SUBSET FanCurveNames]

NoFan == [current_speed |-> 0, current_rpm |-> 0, active_curve |-> "",
          curve |-> <<>>]

FbReturn(op, result) == [op |-> op, result |-> result]

\* Config::validate: the active curve of every fan is the id of a curve of
\* the configuration (the step curves of the table are well formed)
validate(cfg) == cfg.active_curve \in cfg.curves

\* find_controllers: the fan's curve map is the curve table filtered by the
\* names the fan lists; active_curve is cloned
find_controllers(cfg) ==
    [current_speed |-> 0, current_rpm |-> 0,
     active_curve |-> cfg.active_curve,
     curve |-> [n \in cfg.curve \cap cfg.curves |->
                   IF n = "A" THEN Constant50 ELSE Step04]]

FbStart(cfg) ==
    /\ fb_cfg = cfg
    /\ fb_fan = NoFan
    /\ fb_ret = FbReturn("none", "none")
    /\ fb_ops = 0

FbInit == \E cfg \in FbConfigs : FbStart(cfg)

FbIdle == FbStart([curves |-> {}, active_curve |-> "A", curve |-> {}])

\* the controllers are built from a configuration that passed validation
FbBuild ==
    /\ fb_fan = NoFan
    /\ validate(fb_cfg)
    /\ fb_fan' = find_controllers(fb_cfg)
    /\ fb_ret' = FbReturn("find_controllers", "ok")
    /\ UNCHANGED <<fb_cfg, fb_ops>>
    /\ UNCHANGED fbOthers

\* switch_curve on the fan
FbSwitchCurve(name) ==
    /\ fb_fan # NoFan
    /\ fb_ops < MaxFanOps
    /\ fb_ops' = fb_ops + 1
    /\ LET r == update_curve(fb_fan, name)
       IN  /\ fb_fan' = r.fan
           /\ fb_ret' = FbReturn("switch_curve",
                                 IF r.ok THEN "ok" ELSE "Curve not found")
    /\ UNCHANGED fb_cfg
    /\ UNCHANGED fbOthers

\* update_curve_data on the fan
FbUpdateCurveData(name, curve_data) ==
    /\ fb_fan # NoFan
    /\ fb_ops < MaxFanOps
    /\ fb_ops' = fb_ops + 1
    /\ LET r == fan_update_curve_data(fb_fan, name, curve_data)
       IN  /\ fb_fan' = r.fan
           /\ fb_ret' = FbReturn("update_curve_data",
                                 IF r.ok THEN "ok" ELSE "Curve not found")
    /\ UNCHANGED fb_cfg
    /\ UNCHANGED fbOthers

\* compute_speed on the fan
FbComputeSpeed(temp) ==
    /\ fb_fan # NoFan
    /\ fb_ops < MaxFanOps
    /\ fb_ops' = fb_ops + 1
    /\ LET r == compute_speed(fb_fan, temp)
       IN  fb_ret' = FbReturn("compute_speed", IF r.ok THEN "ok" ELSE r.err)
    /\ UNCHANGED <<fb_cfg, fb_fan>>
    /\ UNCHANGED fbOthers

FbNext ==
    \/ FbBuild
    \/ \E name \in FanCurveNames : FbSwitchCurve(name)
    \/ \E name \in FanCurveNames, curve_data \in DrCurveData :
           FbUpdateCurveData(name, curve_data)
    \/ \E temp \in DrTemps : FbComputeSpeed(temp)

(***************************************************************************)
(* Concurrent attach and detach on one Mapping: src/src/mappings.rs.       *)
(* Both take &self; every DashMap operation is atomic by itself, a call is *)
(* two or three of them.                                                   *)
(***************************************************************************)
CaTasks == {"t1", "t2"}

NoCall == [op |-> "none", fan |-> <<0, 0>>, sensor |-> ""]
AttachCall(fan, sensor) == [op |-> "attach", fan |-> fan, sensor |-> sensor]
DetachCall(fan) == [op |-> "detach", fan |-> fan, sensor |-> ""]

\* Option<SensorKey>::None
NoKey == ""

CaInit ==
    /\ ca_f2s = <<>>
    /\ ca_s2f = <<>>
    /\ ca_pc = [t \in CaTasks |-> "idle"]
    /\ ca_call = [t \in CaTasks |-> NoCall]
    /\ ca_old = [t \in CaTasks |-> NoKey]
    /\ ca_calls = [t \in CaTasks |-> 0]

\* attach: self.fans2sensor.insert(fan, sensor.clone())
CaAttachInsert(t, fan, sensor) ==
    /\ ca_pc[t] = "idle"
    /\ ca_calls[t] < MaxIndexCalls
    /\ ca_calls' = [ca_calls EXCEPT ![t] = @ + 1]
    /\ ca_call' = [ca_call EXCEPT ![t] = AttachCall(fan, sensor)]
    /\ ca_old' = [ca_old EXCEPT ![t] =
                     IF fan \in DOMAIN ca_f2s THEN ca_f2s[fan] ELSE NoKey]
    /\ ca_f2s' = MapInsert(ca_f2s, fan, sensor)
    /\ ca_pc' = [ca_pc EXCEPT ![t] = "inserted"]
    /\ UNCHANGED ca_s2f
    /\ UNCHANGED caOthers

\* attach: if let Some(old) = .. { sensor2fans.get(&old) .. set.remove(&fan) }
CaAttachRemoveOld(t) ==
    /\ ca_pc[t] = "inserted"
    /\ ca_s2f' = IF ca_old[t] # NoKey
                 THEN SetRemove(ca_s2f, ca_old[t], ca_call[t].fan)
                 ELSE ca_s2f
    /\ ca_pc' = [ca_pc EXCEPT ![t] = "removed"]
    /\ UNCHANGED <<ca_f2s, ca_call, ca_old, ca_calls>>
    /\ UNCHANGED caOthers

\* attach: self.sensor2fans.entry(sensor).or_default().insert(fan), return
CaAttachEntry(t) ==
    /\ ca_pc[t] = "removed"
    /\ ca_s2f' = EntryInsert(ca_s2f, ca_call[t].sensor, ca_call[t].fan)
    /\ ca_pc' = [ca_pc EXCEPT ![t] = "idle"]
    /\ UNCHANGED <<ca_f2s, ca_call, ca_old, ca_calls>>
    /\ UNCHANGED caOthers

\* detach: self.fans2sensor.remove(&fan)
CaDetachRemove(t, fan) ==
    /\ ca_pc[t] = "idle"
    /\ ca_calls[t] < MaxIndexCalls
    /\ ca_calls' = [ca_calls EXCEPT ![t] = @ + 1]
    /\ ca_call' = [ca_call EXCEPT ![t] = DetachCall(fan)]
    /\ ca_old' = [ca_old EXCEPT ![t] =
                     IF fan \in DOMAIN ca_f2s THEN ca_f2s[fan] ELSE NoKey]
    /\ ca_f2s' = MapRemove(ca_f2s, fan)
    /\ ca_pc' = [ca_pc EXCEPT ![t] = "taken"]
    /\ UNCHANGED ca_s2f
    /\ UNCHANGED caOthers

\* detach: if let Some((_, key)) = .. { sensor2fans.get(&key) ..
\* set.remove(&fan) }, return
CaDetachRemoveFromSet(t) ==
    /\ ca_pc[t] = "taken"
    /\ ca_s2f' = IF ca_old[t] # NoKey
                 THEN SetRemove(ca_s2f, ca_old[t], ca_call[t].fan)
                 ELSE ca_s2f
    /\ ca_pc' = [ca_pc EXCEPT ![t] = "idle"]
    /\ UNCHANGED <<ca_f2s, ca_call, ca_old, ca_calls>>
    /\ UNCHANGED caOthers

CaNext ==
    \/ \E t \in CaTasks, fan \in FanRefs, sensor \in SensorKeys :
           CaAttachInsert(t, fan, sensor)
    \/ \E t \in CaTasks : CaAttachRemoveOld(t)
    \/ \E t \in CaTasks : CaAttachEntry(t)
    \/ \E t \in CaTasks, fan \in FanRefs : CaDetachRemove(t, fan)
    \/ \E t \in CaTasks : CaDetachRemoveFromSet(t)

(***************************************************************************)
(* Specifications                                                          *)
(***************************************************************************)
Init == TMInit /\ MapIdle /\ SessInit /\ MonInit /\ SvcInit /\ BusInit /\ CoIdle /\ CwInit /\ ClIdle /\ CvIdle /\ DrInit /\ AdIdle /\ PrIdle /\ EnIdle /\ GdIdle /\ McInit /\ FcIdle /\ ShInit /\ StInit /\ LkInit /\ FbIdle /\ CaInit

Next ==
    \/ \E name \in TaskNames : SpawnTask(name)
    \/ \E t \in TaskIds, o \in {"ok", "err", "panicked"} : TaskFinish(t, o)
    \/ ShutdownBegin
    \/ ShutdownAwait
    \/ ShutdownReturn

Spec == Init /\ [][Next]_vars

\* the caller of shutdown_all is polled until it returns; nothing is assumed
\* of the tasks
FairSpec == Spec /\ WF_vars(ShutdownAwait) /\ WF_vars(ShutdownReturn)

\* the mapping index under loads, attaches and detaches in any order
MapSpecInit == TMInit /\ MapInit /\ SessInit /\ MonInit /\ SvcInit /\ BusInit /\ CoIdle /\ CwInit /\ ClIdle /\ CvIdle /\ DrInit /\ AdIdle /\ PrIdle /\ EnIdle /\ GdIdle /\ McInit /\ FcIdle /\ ShInit /\ StInit /\ LkInit /\ FbIdle /\ CaInit
MapSpec == MapSpecInit /\ [][MapNext]_vars

\* the tasks that share one controller session
SessSpec == Init /\ [][SessNext]_vars

\* the monitoring task and the readers of the sample cache, with the mapping
\* index as loaded from any configuration
\* The tick reads the index only through fans_for_sensor, i.e. sensor2fans,
\* which does not depend on the order of the configured pairs nor on a pair
\* being repeated: one configuration for each value of sensor2fans is enough.
PairRank(pair) ==
    (IF pair[1] = "cpu" THEN 0 ELSE MaxChannels) + pair[2][2]

MonMapInit ==
    /\ MapInit
    /\ \A i, j \in DOMAIN map_cfg :
           i < j => PairRank(map_cfg[i]) < PairRank(map_cfg[j])

MonSpecInit == TMInit /\ MonMapInit /\ SessInit /\ MonInit /\ SvcInit /\ BusInit /\ CoIdle /\ CwInit /\ ClIdle /\ CvIdle /\ DrInit /\ AdIdle /\ PrIdle /\ EnIdle /\ GdIdle /\ McInit /\ FcIdle /\ ShInit /\ StInit /\ LkInit /\ FbIdle /\ CaInit

MonSpec == MonSpecInit /\ [][MonNext]_vars

\* the four service loops.  tokio::select! polls its branches in a random
\* order, so a branch that is ready every time the loop comes back to the
\* select is taken at some time (strong fairness of the cancellation
\* branch); the runtime keeps polling a task that can go on (weak fairness
\* of the end of a unit of work)
SvcSpec == Init /\ [][SvcNext]_vars
SvcFairSpec ==
    /\ SvcSpec
    /\ \A s \in Services : SF_vars(SvcCancelled(s))
    /\ \A s \in Services : WF_vars(SvcWorkDone(s))

\* the event bus with its clones, publishers and receivers
BusSpec == Init /\ [][BusNext]_vars

\* The coordinator with the configuration manager and the file on disk.
CoSpecInit == TMInit /\ MapIdle /\ SessInit /\ MonInit /\ SvcInit /\ BusInit /\ CoInit /\ CwInit /\ ClIdle /\ CvIdle /\ DrInit /\ AdIdle /\ PrIdle /\ EnIdle /\ GdIdle /\ McInit /\ FcIdle /\ ShInit /\ StInit /\ LkInit /\ FbIdle /\ CaInit

CoSpec == CoSpecInit /\ [][CoNext]_vars

\* The config watcher with the filesystem events of its directory.
CwSpec == Init /\ [][CwNext]_vars

\* The change classifier on every pair of an in-memory configuration and a
\* file.
ClSpecInit == TMInit /\ MapIdle /\ SessInit /\ MonInit /\ SvcInit /\ BusInit /\ CoIdle /\ CwInit /\ ClInit /\ CvIdle /\ DrInit /\ AdIdle /\ PrIdle /\ EnIdle /\ GdIdle /\ McInit /\ FcIdle /\ ShInit /\ StInit /\ LkInit /\ FbIdle /\ CaInit

ClSpec == ClSpecInit /\ [][ClNext]_vars

\* The curve evaluator on every curve and temperature of the grids.
CvSpecInit == TMInit /\ MapIdle /\ SessInit /\ MonInit /\ SvcInit /\ BusInit /\ CoIdle /\ CwInit /\ ClIdle /\ CvInit /\ DrInit /\ AdIdle /\ PrIdle /\ EnIdle /\ GdIdle /\ McInit /\ FcIdle /\ ShInit /\ StInit /\ LkInit /\ FbIdle /\ CaInit

CvSpec == CvSpecInit /\ [][CvNext]_vars

\* The operations of one controller, called with every channel.
DrSpec == Init /\ [][DrNext]_vars

\* The addressing of every target of the configuration.
AdSpecInit == TMInit /\ MapIdle /\ SessInit /\ MonInit /\ SvcInit /\ BusInit /\ CoIdle /\ CwInit /\ ClIdle /\ CvIdle /\ DrInit /\ AdInit /\ PrIdle /\ EnIdle /\ GdIdle /\ McInit /\ FcIdle /\ ShInit /\ StInit /\ LkInit /\ FbIdle /\ CaInit

AdSpec == AdSpecInit /\ [][AdNext]_vars

\* The status requests on every outcome of the write and the read.
PrSpecInit == TMInit /\ MapIdle /\ SessInit /\ MonInit /\ SvcInit /\ BusInit /\ CoIdle /\ CwInit /\ ClIdle /\ CvIdle /\ DrInit /\ AdIdle /\ PrInit /\ EnIdle /\ GdIdle /\ McInit /\ FcIdle /\ ShInit /\ StInit /\ LkInit /\ FbIdle /\ CaInit

PrSpec == PrSpecInit /\ [][PrNext]_vars

\* The encoder on every command of the bounded set.
EnSpecInit == TMInit /\ MapIdle /\ SessInit /\ MonInit /\ SvcInit /\ BusInit /\ CoIdle /\ CwInit /\ ClIdle /\ CvIdle /\ DrInit /\ AdIdle /\ PrIdle /\ EnInit /\ GdIdle /\ McInit /\ FcIdle /\ ShInit /\ StInit /\ LkInit /\ FbIdle /\ CaInit

EnSpec == EnSpecInit /\ [][EnNext]_vars

\* The GetData decoder on every buffer of the bounded set.
GdSpecInit == TMInit /\ MapIdle /\ SessInit /\ MonInit /\ SvcInit /\ BusInit /\ CoIdle /\ CwInit /\ ClIdle /\ CvIdle /\ DrInit /\ AdIdle /\ PrIdle /\ EnIdle /\ GdInit /\ McInit /\ FcIdle /\ ShInit /\ StInit /\ LkInit /\ FbIdle /\ CaInit

GdSpec == GdSpecInit /\ [][GdNext]_vars

\* The monitoring loop with its token cancelled at any moment.
McSpec == Init /\ [][McNext]_vars

\* The color loop on every configuration of the bounded set.
FcSpecInit == TMInit /\ MapIdle /\ SessInit /\ MonInit /\ SvcInit /\ BusInit /\ CoIdle /\ CwInit /\ ClIdle /\ CvIdle /\ DrInit /\ AdIdle /\ PrIdle /\ EnIdle /\ GdIdle /\ McInit /\ FcInit /\ ShInit /\ StInit /\ LkInit /\ FbIdle /\ CaInit

FcSpec == FcSpecInit /\ [][FcNext]_vars

\* The shutdown requests, with a coordinator that goes on: it leaves
\* start_all_services, receives what waits in its receiver and finishes
\* the handling of an event.
ShSpec == Init /\ [][ShNext]_vars
ShFairSpec ==
    /\ ShSpec
    /\ WF_vars(ShSubscribe)
    /\ WF_vars(ShRecv)
    /\ WF_vars(ShHandled)

\* start_all_services and the start-up of the tasks it spawns.
StSpec == Init /\ [][StNext]_vars

\* The tasks of the daemon taking the locks of the shared state.
LkSpec == Init /\ [][LkNext]_vars

\* A fan built from every configuration of the bounded set, and the
\* operations on it.
FbSpecInit == TMInit /\ MapIdle /\ SessInit /\ MonInit /\ SvcInit /\ BusInit /\ CoIdle /\ CwInit /\ ClIdle /\ CvIdle /\ DrInit /\ AdIdle /\ PrIdle /\ EnIdle /\ GdIdle /\ McInit /\ FcIdle /\ ShInit /\ StInit /\ LkInit /\ FbInit /\ CaInit

FbSpec == FbSpecInit /\ [][FbNext]_vars

\* Two tasks calling attach and detach on one Mapping.
CaSpec == Init /\ [][CaNext]_vars

(***************************************************************************)
(* Claims about the task supervisor                                        *)
(***************************************************************************)

\* C1: when shutdown_all has returned, with success or with an error and
\* whatever became of the tasks (ended, failed, panicked, overran the
\* timeout), the registry is empty: active_count() = 0.
C1_RegistryEmptyAfterShutdown ==
    sd_pc = "returned" => active_count = 0

\* a shutdown that returned an error after a timeout and a panic
C1_Witness ==
    /\ sd_pc = "returned"
    /\ sd_result.status = "err"
    /\ \E i, j \in DOMAIN sd_awaited :
        sd_awaited[i][2] = "timeout" /\ sd_awaited[j][2] = "panicked"

\* C3: shutdown_all cancels the global token before it awaits any handle; a
\* handle whose task is still running when its await ends is recorded as a
\* timeout and makes the call return an error; and the call always returns,
\* also when a task never observes the cancellation.
C3_ShutdownCancelsAndReturns ==
    /\ [](sd_pc = "awaiting" => global_token)
    /\ [][(sd_pc = "awaiting" /\ Len(sd_awaited') = Len(sd_awaited) + 1
            /\ task_state[Head(sd_handles)] = "running")
          => sd_awaited'[Len(sd_awaited')] = <<Head(sd_handles), "timeout">>]_vars
    /\ [](sd_pc = "returned"
          => \A i \in DOMAIN sd_awaited :
                sd_awaited[i][2] = "timeout" => sd_result.status = "err")
    /\ (sd_pc = "awaiting") ~> (sd_pc = "returned")

\* shutdown_all has returned although a task it awaited is still running
C3_Witness ==
    /\ sd_pc = "returned"
    /\ \E i \in DOMAIN sd_awaited :
        /\ sd_awaited[i][2] = "timeout"
        /\ task_state[sd_awaited[i][1]] = "running"

\* C4: shutdown_all returns success exactly when every awaited task ended
\* with success; otherwise it returns the first non-success in the order
\* the handles were awaited; every drained handle is awaited, whatever the
\* outcomes of the handles before it.
C4_FirstNonSuccessReturned ==
    sd_pc = "returned" =>
        /\ Len(sd_awaited) = Cardinality(sd_drained)
        /\ {sd_awaited[i][1] : i \in DOMAIN sd_awaited} = sd_drained
        /\ (sd_result.status = "ok") <=>
              (\A i \in DOMAIN sd_awaited : sd_awaited[i][2] = "ok")
        /\ sd_result.status # "ok" =>
              \E i \in DOMAIN sd_awaited :
                  /\ sd_awaited[i][2] # "ok"
                  /\ \A j \in 1..(i - 1) : sd_awaited[j][2] = "ok"
                  /\ sd_result = [status |-> "err", error |-> sd_awaited[i]]

\* two handles awaited, both without success and in different ways
C4_Witness ==
    /\ sd_pc = "returned"
    /\ Len(sd_awaited) = 2
    /\ sd_awaited[1][2] # "ok"
    /\ sd_awaited[2][2] # "ok"
    /\ sd_awaited[1][2] # sd_awaited[2][2]

(***************************************************************************)
(* Claims about the mapping index                                          *)
(***************************************************************************)

\* C8: after any sequence of load_mappings, attach and detach, and for any
\* mapping configuration (also one that lists a fan under two sensors or
\* twice under one), fans2sensor maps a fan to a sensor exactly when the
\* sensor's set holds the fan, so no fan is in the set of two sensors.
C8_BidirectionalIndex ==
    /\ \A f \in FanRefs, s \in SensorKeys :
          (f \in DOMAIN fans2sensor /\ fans2sensor[f] = s)
              <=> f \in fans_for_sensor(s)
    /\ \A f \in FanRefs, s1, s2 \in SensorKeys :
          (f \in fans_for_sensor(s1) /\ f \in fans_for_sensor(s2)) => s1 = s2

\* C9: fans_for_sensor(s) yields f exactly when attach(f, s) was the last
\* attach or detach of f, or f was never attached or detached and the
\* configuration lists f under s.
C9_FansForSensor ==
    \A f \in FanRefs, s \in SensorKeys :
        f \in fans_for_sensor(s)
            <=> \/ last_mut[f] = s
                \/ /\ last_mut[f] = NotMutated
                   /\ \E i \in DOMAIN map_cfg : map_cfg[i] = <<s, f>>

(***************************************************************************)
(* Claims about the controller session                                     *)
(***************************************************************************)

\* C10: on one controller session at most one request is between its write
\* and its read at any time, and it is a request of the task that holds the
\* session's mutex: the write and the read of a request are never
\* interleaved with those of another request, whichever tasks call.
C10_RequestsNotInterleaved ==
    /\ Cardinality(sess_inflight) <= 1
    /\ \A r \in sess_inflight : sess_owner = r[1]

\* a request of one task is in flight while another task wants the session
C10_Witness ==
    \E c, d \in Callers :
        /\ c # d
        /\ <<c, "GetData">> \in sess_inflight
        /\ sess_pc[d] \in {"pf_lock2", "pc_lock", "rq_lock"}

(***************************************************************************)
(* Claims about the monitoring tick                                        *)
(***************************************************************************)
\* how often the tick has done k so far
Count(k) == Cardinality({i \in DOMAIN mon_log : mon_log[i] = k})

\* the tick has replaced the cache
Written == Count("cache") > 0

\* the tick is over: the task is back at its select, or it is gone
TickEnded == mon_log # <<>> /\ mon_pc \in {"select", "panicked"}

\* C5: within one tick every sensor read is before the replacement of the
\* sample cache and the replacement is before the publish of
\* TemperatureChanged; the cache is replaced only when every sensor was read,
\* and the payload published is the snapshot the tick wrote to the cache.
C5_ReadThenCacheThenPublish ==
    /\ \A i, j \in DOMAIN mon_log :
          i < j => /\ ~(mon_log[i] = "cache" /\ mon_log[j] = "read")
                   /\ ~(mon_log[i] = "publish" /\ mon_log[j] \in {"read", "cache"})
    /\ Written => Count("read") = Len(SensorList)
    /\ Count("publish") > 0 => Written
    /\ mon_payload # <<>> => mon_payload = <<sensor_data>>

\* a tick that read both sensors, drove a fan and published a snapshot that
\* is not the one of the tick before
C5_Witness ==
    /\ mon_payload # <<>>
    /\ DOMAIN mon_payload[1] = {"cpu", "gpu"}
    /\ mon_payload[1] # snap_old
    /\ Count("update") > 0

RECURSIVE OwedUpdates(_)
OwedUpdates(i) ==
    IF i > Len(SensorList) THEN 0
    ELSE OwedUpdates(i + 1)
         + (IF SensorList[i] \in DOMAIN temperatures
            THEN Cardinality(fans_for_sensor(SensorList[i])) ELSE 0)

\* C7: a tick in which a sensor read or a channel update failed is not
\* aborted: when it is over every sensor was read, every fan of every
\* sensor that was read got its update, the cache was replaced and
\* TemperatureChanged was published.
C7_FailureDoesNotAbortTick ==
    (TickEnded /\ mon_failed) =>
        /\ Count("read") = Len(SensorList)
        /\ Count("update") = OwedUpdates(1)
        /\ Count("cache") = 1
        /\ Count("publish") = 1

(***************************************************************************)
(* Claims about the service loops                                          *)
(***************************************************************************)

C11_ReceivedIsPublishedSinceSubscribe ==
    \A r \in Subscribers :
        (\A i \in DOMAIN rx_got[r] : rx_got[r][i] # "Lagged") =>
            /\ rx_next[r] = rx_start[r] + Len(rx_got[r])
            /\ \A i \in DOMAIN rx_got[r] :
                  /\ rx_start[r] + i \in DOMAIN bus_sent[1]
                  /\ rx_got[r][i] = bus_sent[1][rx_start[r] + i]
            /\ rx_state[r] # "none" => rx_start[r] + Len(rx_got[r]) <= Len(bus_sent[1])

\* a receiver subscribed after the first event has received the two later
\* ones, which differ, while the other receiver has read only the first
C11_Witness ==
    /\ Len(bus_sent[1]) = 3
    /\ rx_start[2] = 1
    /\ rx_got[2] = <<bus_sent[1][2], bus_sent[1][3]>>
    /\ bus_sent[1][2] # bus_sent[1][3]
    /\ rx_got[1] = <<bus_sent[1][1]>>

\* C12: a publish returns an error exactly when no receiver is alive, and
\* then stores nothing; with a live receiver it succeeds also when a
\* receiver's queue is full; Lagged is given only to a receiver that is more
\* than the capacity behind, and a recv changes nothing of another receiver.
C12_PublishFailsOnlyWithoutSubscriber ==
    /\ [][pub_count' # pub_count =>
            /\ (pub_result' = "err") <=> (\A r \in Subscribers : rx_state[r] # "live")
            /\ (pub_result' = "ok") <=> (Len(bus_sent'[1]) = Len(bus_sent[1]) + 1)
            /\ pub_result' \in {"ok", "err"}]_vars
    /\ [][\A r \in Subscribers :
            rx_got'[r] # rx_got[r] =>
                /\ (rx_got'[r][Len(rx_got'[r])] = "Lagged") <=> (Backlog(r) > BusCapacity)
                /\ \A q \in Subscribers \ {r} :
                      rx_got'[q] = rx_got[q] /\ rx_next'[q] = rx_next[q]]_vars

\* a publish succeeded although a live receiver had a full queue, and that
\* receiver alone was later told Lagged
C12_Witness ==
    /\ pub_result = "ok"
    /\ Len(bus_sent[1]) = 3
    /\ rx_state[1] = "live" /\ rx_state[2] = "live"
    /\ rx_got[1] = <<"Lagged">>
    /\ Len(rx_got[2]) = 3
    /\ \A i \in 1..3 : rx_got[2][i] # "Lagged"

(***************************************************************************)
(* Claims about the coordinator and the configuration manager              *)
(***************************************************************************)

\* the step in which a call of start_all_services is made and returns
StartAllReturns ==
    /\ co_pc = "idle" /\ co_pc' = "idle"
    /\ co_calls' = co_calls + 1
    /\ co_ret'.op = "start_all_services"

\* the step in which the main loop handles event ev
Handles(ev) == co_pc = "loop" /\ co_events' = co_events + 1 /\ last_event' = ev

\* C13: start_all_services starts the registered services in descending
\* priority order: monitoring (10), control endpoint (8, when registered),
\* config watcher (6), color (4), broadcast (3); no service is started before
\* a registered service of higher priority.
C13_StartsInDescendingPriority ==
    [][StartAllReturns =>
        /\ priority("MonitoringService") = 10
        /\ priority("DBusService") = 8
        /\ priority("ConfigWatcherService") = 6
        /\ priority("FanColorService") = 4
        /\ priority("BroadcastService") = 3
        /\ \A i, j \in DOMAIN start_calls' :
               i < j => priority(start_calls'[i].name)
                            > priority(start_calls'[j].name)
        /\ \A j \in DOMAIN start_calls' : \A k \in DOMAIN service_providers :
               priority(service_providers[k]) > priority(start_calls'[j].name)
                   => \E i \in 1..(j - 1) :
                          start_calls'[i].name = service_providers[k]
        /\ \A j \in DOMAIN start_calls' :
               \E k \in DOMAIN service_providers :
                   service_providers[k] = start_calls'[j].name]_vars

\* all five services registered and started, in the order 10, 8, 6, 4, 3
C13_Witness ==
    /\ co_ret.op = "start_all_services"
    /\ Len(service_providers) = 5
    /\ [i \in DOMAIN start_calls |-> start_calls[i].name]
           = <<"MonitoringService", "DBusService", "ConfigWatcherService",
               "FanColorService", "BroadcastService">>

\* C14: when the start of a critical service returns an error,
\* start_all_services returns that error and starts no further service; when
\* the start of a non-critical service returns an error, every remaining
\* service is still started, and without a critical failure the call starts
\* every registered service and returns Ok.
C14_CriticalFailureAborts ==
    [][StartAllReturns =>
        LET calls == start_calls'
            CriticalFailures == {i \in DOMAIN calls :
                                    /\ calls[i].result = "err"
                                    /\ is_critical(calls[i].name)}
        IN  /\ \A i \in CriticalFailures :
                   /\ i = Len(calls)
                   /\ co_ret'.result = "err"
                   /\ co_ret'.cause = calls[i].name
            /\ \A i \in DOMAIN calls :
                   /\ calls[i].result = "err"
                   /\ ~is_critical(calls[i].name)
                   /\ i < Len(service_providers)
                   => /\ Len(calls) > i
                      /\ calls[i + 1].name = service_providers[i + 1]
            /\ CriticalFailures = {} =>
                   /\ co_ret'.result = "ok"
                   /\ Len(calls) = Len(service_providers)
            /\ co_ret'.result = "err" => CriticalFailures # {}
            /\ \A i \in DOMAIN calls :
                   calls[i].result = "ok" => calls[i].name \in co_tasks']_vars

\* five services registered; the watcher's start failed, the services
\* after it were started and the call returned Ok
C14_Witness ==
    /\ co_ret = [op |-> "start_all_services", result |-> "ok",
                 cause |-> "none"]
    /\ Len(start_calls) = 5
    /\ start_calls[3] = [name |-> "ConfigWatcherService", result |-> "err"]
    /\ start_calls[4] = [name |-> "FanColorService", result |-> "ok"]
    /\ start_calls[5] = [name |-> "BroadcastService", result |-> "ok"]
    /\ co_tasks = {"MonitoringService", "DBusService", "FanColorService",
                    "BroadcastService"}

\* the step in which a call of initialize is made and returns
InitializeReturns ==
    /\ co_pc = "idle" /\ co_pc' = "idle"
    /\ co_calls' = co_calls + 1
    /\ co_ret'.op = "initialize"

\* an initialize has succeeded (only a successful initialize registers
\* providers, and it always registers at least four)
InitializeSucceeded == service_providers # <<>>

\* C15: the coordinator moves only forward through Uninitialized,
\* Initialized, Running, Shutdown: an initialize after a successful one is
\* rejected, and start_all_services and run_main_loop are rejected until an
\* initialize has succeeded.
C15_LifecycleGuards ==
    [][/\ InitializeReturns /\ InitializeSucceeded => co_ret'.result = "err"
       /\ StartAllReturns /\ ~InitializeSucceeded => co_ret'.result = "err"
       /\ co_pc = "idle" /\ co_pc' = "loop" => InitializeSucceeded]_vars

\* C16: when the main loop receives SystemShutdown it shuts down all tasks
\* and returns as it does on an interrupt signal: run_main_loop returns Ok.
C16_ShutdownEventReturnsOk ==
    [][Handles("SystemShutdown") =>
        /\ co_tasks' = {}
        /\ co_token'
        /\ co_pc' = "idle"
        /\ co_ret' = [op |-> "run_main_loop", result |-> "ok",
                      cause |-> "none"]]_vars

\* C17: handling ColdRestart changes neither the shared state (controllers,
\* sensors, mapping index) nor the in-memory configuration, handling
\* HotReload changes neither the controllers nor the sensors, and after
\* either the main loop goes on.
C17_ConfigChangeFrame ==
    [][/\ Handles("ColdRestart") =>
              /\ shared_state' = shared_state
              /\ config' = config
              /\ co_pc' = "loop"
       /\ Handles("HotReload") =>
              /\ shared_state'.controllers = shared_state.controllers
              /\ shared_state'.sensors = shared_state.sensors
              /\ co_pc' = "loop"]_vars

\* C18: after the main loop has handled HotReload successfully, the curve
\* tables of the controllers, the mapping index, the colors the color
\* service reads from the configuration, and the period of the monitoring
\* loop are those of the configuration on disk.
C18_HotReloadRefreshesProjections ==
    [][Handles("HotReload") /\ shared_state.some /\ co_pc' = "loop" =>
        /\ config'.content = disk.content
        /\ shared_state'.controllers.content = disk.content
        /\ shared_state'.mapping.content = disk.content
        /\ interval_cfg # NoConfig => interval_cfg'.content = disk.content]_vars

\* the file on disk loads: it can be read and parsed, has version 1 and
\* passes validation
DiskLoads == disk.readable /\ disk.yaml /\ disk.version = 1 /\ disk.valid

\* C19: a reload whose read, parse, version check or validation fails
\* returns an error and leaves the in-memory configuration as it was; the
\* configuration changes only to a completely parsed and validated one, so
\* it is at every moment a version-1 configuration that passed validation.
C19_FailedReloadKeepsConfig ==
    /\ [](config.version = 1 /\ config.valid /\ config \in Configs)
    /\ [][Handles("HotReload") /\ shared_state.some =>
            IF DiskLoads
            THEN config' = Parsed(disk)
            ELSE /\ config' = config
                 /\ co_ret'.result = "err"
                 /\ co_ret'.cause = "reload"]_vars
    /\ [][config' # config =>
            /\ Handles("HotReload")
            /\ DiskLoads
            /\ config' = Parsed(disk)]_vars

\* a reload of a file that fails validation has returned its error and the
\* configuration is still the one a reload before it had loaded
C19_Witness ==
    /\ co_ret = [op |-> "run_main_loop", result |-> "err",
                 cause |-> "reload"]
    /\ last_event = "HotReload"
    /\ co_events = 2
    /\ disk.readable /\ disk.yaml /\ disk.version = 1 /\ ~disk.valid
    /\ config.content = 2
    /\ shared_state.some /\ shared_state.mapping.content = 1

(***************************************************************************)
(* Claims about the config watcher                                         *)
(***************************************************************************)

\* a modify or create event with a path of the configuration file's name
ArmsReload(e) ==
    /\ e.kind \in {"modify", "create"}
    /\ \E i \in DOMAIN e.paths : e.paths[i].name = "config.yml"

\* C20: the watcher publishes ConfigChangeDetected only if, since its
\* previous publication, it received at least one modify or create event
\* whose path has the configuration file's name; receiving a deletion, an
\* event on another file or a watcher error never sets the pending flag.
C20_PublishesOnlyAfterRelevantEvent ==
    /\ [][cw_published' # cw_published =>
            /\ \E e \in cw_since : ArmsReload(e)
            /\ Len(cw_published') = Len(cw_published) + 1
            /\ cw_published'[Len(cw_published')] \in
                   {"HotReload", "ColdRestart"}]_vars
    /\ [][cw_rx # <<>> /\ cw_rx' = Tail(cw_rx) /\ ~ArmsReload(Head(cw_rx))
            => cw_has_pending_event' = cw_has_pending_event]_vars
    /\ [](cw_has_pending_event => \E e \in cw_since : ArmsReload(e))

\* two publications, each after a modify of the configuration file, and
\* then a deletion of the file received without arming the pending flag
C20_Witness ==
    /\ cw_published = <<"HotReload", "ColdRestart">>
    /\ cw_since = {[kind |-> "remove", paths |-> <<ConfigPath>>]}
    /\ ~cw_has_pending_event
    /\ ~cw_exists
    /\ cw_rx = <<>>

\* C21: matching events that all arrive within one debounce window of
\* 2000 ms are coalesced: the classifier is invoked at most once for them,
\* no earlier than 2000 ms after the pending flag was armed, and at most one
\* ConfigChangeDetected is published.
C21_BurstIsCoalesced ==
    /\ \A i \in DOMAIN cw_analyses :
           cw_analyses[i].at - cw_analyses[i].armed >= DebounceMs
    /\ (\A s, t \in cw_matches : s - t < DebounceMs)
           => Len(cw_analyses) <= 1 /\ Len(cw_published) <= 1

(***************************************************************************)
(* Claims about the change classifier                                      *)
(***************************************************************************)

\* C22: for a file that loads, the classifier returns ColdRestart exactly
\* when the controllers or the sensors section of the file differs from the
\* in-memory configuration, with changed_sections naming exactly the
\* differing ones of the two, and HotReload otherwise, so that equal
\* configurations yield HotReload; classifying changes neither the
\* in-memory configuration nor the file.
C22_ClassifierSplitsByHardwareSections ==
    [][cl_result' # NoResult /\ cl_file # NoFile =>
          /\ cl_mem' = cl_mem /\ cl_file' = cl_file
          /\ cl_result'.kind = "ColdRestart" <=>
                 \/ cl_mem.controllers # cl_file.controllers
                 \/ cl_mem.sensors # cl_file.sensors
          /\ cl_result'.kind \in {"ColdRestart", "HotReload"}
          /\ \A sec \in {"controllers", "sensors"} :
                 (\E i \in DOMAIN cl_result'.changed_sections :
                      cl_result'.changed_sections[i] = sec)
                 <=> cl_mem[sec] # cl_file[sec]
          /\ Len(cl_result'.changed_sections) <= 2
          /\ cl_mem = cl_file => cl_result'.kind = "HotReload"]_vars

\* a file whose sensors and rest differ from memory is classified
\* ColdRestart for the sensors section alone
C22_Witness ==
    /\ cl_result = [kind |-> "ColdRestart", changed_sections |-> <<"sensors">>]
    /\ cl_mem = [controllers |-> 1, sensors |-> 1, rest |-> 1]
    /\ cl_file = [controllers |-> 1, sensors |-> 2, rest |-> 2]

(***************************************************************************)
(* Claims about the curve evaluator                                        *)
(***************************************************************************)

\* a step curve with strictly ascending temperatures and at least two
\* points, after compute_speed
AscendingStepCurve ==
    /\ cv_result # NoDuty
    /\ cv_curve.kind = "StepCurve"
    /\ Len(cv_curve.temps) >= 2
    /\ \A i \in 1..Len(cv_curve.temps) - 1 :
           cv_curve.temps[i] < cv_curve.temps[i + 1]

\* the temperature is inside [tmps[0], tmps.last()]
InsideStepCurve ==
    /\ cv_curve.temps[1] <= cv_temp
    /\ cv_temp <= cv_curve.temps[Len(cv_curve.temps)]

\* the first interval that contains the temperature
FirstInterval ==
    CHOOSE i \in 1..Len(cv_curve.temps) - 1 :
        /\ cv_curve.temps[i] <= cv_temp /\ cv_temp <= cv_curve.temps[i + 1]
        /\ \A j \in 1..i - 1 :
               ~(cv_curve.temps[j] <= cv_temp
                 /\ cv_temp <= cv_curve.temps[j + 1])

\* q is the linear interpolation over the first containing interval,
\* rounded to the nearest integer, halves away from zero
IsRoundedInterpolation(q) ==
    LET i == FirstInterval
        den == cv_curve.temps[i + 1] - cv_curve.temps[i]
        num == cv_curve.speeds[i] * (cv_curve.temps[i + 1] - cv_temp)
               + cv_curve.speeds[i + 1] * (cv_temp - cv_curve.temps[i])
    IN  0 - den < 2 * (q * den - num) /\ 2 * (q * den - num) <= den

SpeedsOf(curve) == {curve.speeds[i] : i \in DOMAIN curve.speeds}
MinOf(S) == CHOOSE x \in S : \A y \in S : x <= y
MaxOf(S) == CHOOSE x \in S : \A y \in S : y <= x
AtMost100(x) == IF x > 100 THEN 100 ELSE x

\* C28 as stated: for a step curve with strictly ascending temperatures and
\* at least two points, a temperature inside [tmps[0], tmps.last()] yields
\* the rounded linear interpolation over the first containing interval,
\* which is within [min(spds), max(spds)] and equals spds[i] at tmps[i]; a
\* temperature outside yields the temperature-out-of-range error.
C28_StepInterpolation ==
    AscendingStepCurve =>
        IF InsideStepCurve
        THEN /\ cv_result.ok
             /\ IsRoundedInterpolation(cv_result.duty)
             /\ MinOf(SpeedsOf(cv_curve)) <= cv_result.duty
             /\ cv_result.duty <= MaxOf(SpeedsOf(cv_curve))
             /\ \A i \in DOMAIN cv_curve.temps :
                    cv_temp = cv_curve.temps[i]
                        => cv_result.duty = cv_curve.speeds[i]
        ELSE cv_result = CurveError("Temperature not found in curve")

\* C28, amended: the result is the rounded linear interpolation over the
\* first containing interval, limited to 100; it is within
\* [min(spds), max(spds)] and equals spds[i] at tmps[i] up to that limit,
\* and exactly so when no speed of the curve exceeds 100.
C28_StepInterpolationUpTo100 ==
    AscendingStepCurve =>
        IF InsideStepCurve
        THEN /\ cv_result.ok
             /\ \E q \in 0..255 :
                    /\ IsRoundedInterpolation(q)
                    /\ cv_result.duty = AtMost100(q)
             /\ AtMost100(MinOf(SpeedsOf(cv_curve))) <= cv_result.duty
             /\ cv_result.duty <= AtMost100(MaxOf(SpeedsOf(cv_curve)))
             /\ \A i \in DOMAIN cv_curve.temps :
                    cv_temp = cv_curve.temps[i]
                        => cv_result.duty = AtMost100(cv_curve.speeds[i])
        ELSE cv_result = CurveError("Temperature not found in curve")

\* halfway between 0 at 0 degrees and 25 at 4 degrees: 12.5 is rounded to 13
C28_Witness ==
    /\ cv_curve.kind = "StepCurve"
    /\ cv_curve.temps = <<0, 4>> /\ cv_curve.speeds = <<0, 25>>
    /\ cv_temp = 2
    /\ cv_result = Duty(13)

\* C29: whenever compute_speed succeeds, for a constant, a step or a Bezier
\* curve with four points and whatever data is stored, the duty is in
\* 0..100.
C29_DutyIsAPercentage ==
    cv_result.ok => cv_result.duty \in 0..100

(***************************************************************************)
(* Claims about the controller and its fans                                *)
(***************************************************************************)

\* C23: a successful update_channel(ch, temp) sends exactly set_speed(ch, d)
\* and then get_data(ch), d being the duty of the channel's active curve at
\* temp, and records the (speed, rpm) read as the last reading of the
\* channel, leaving the other fans alone; a call that fails leaves every
\* last reading as it was.
C23_UpdateChannelSetsThenReads ==
    [][dr_ret'.op = "update_channel" =>
          LET ch == dr_ret'.channel
          IN  IF dr_ret'.result = "ok"
              THEN /\ ch \in DOMAIN dr_fans
                   /\ compute_speed(dr_fans[ch], dr_ret'.temp).ok
                   /\ dr_dev' =
                        <<[cmd |-> "set_speed", port |-> ch,
                           arg |-> compute_speed(dr_fans[ch],
                                                 dr_ret'.temp).duty],
                          [cmd |-> "get_data", port |-> ch, arg |-> 0]>>
                   /\ dr_fans'[ch].current_speed = dr_ret'.reading[1]
                   /\ dr_fans'[ch].current_rpm = dr_ret'.reading[2]
                   /\ dr_fans'[ch].active_curve = dr_fans[ch].active_curve
                   /\ dr_fans'[ch].curve = dr_fans[ch].curve
                   /\ \A i \in DOMAIN dr_fans \ {ch} :
                          dr_fans'[i] = dr_fans[i]
              ELSE \A i \in DOMAIN dr_fans :
                       /\ dr_fans'[i].current_speed = dr_fans[i].current_speed
                       /\ dr_fans'[i].current_rpm = dr_fans[i].current_rpm]_vars

\* update_channel(2, 1) on the step curve 0..4 -> 0..25 sent duty 6 to port
\* 2, read (25, 900) and recorded it for fan 2 alone
C23_Witness ==
    /\ dr_ret.op = "update_channel" /\ dr_ret.result = "ok"
    /\ dr_ret.channel = 2 /\ dr_ret.temp = 1
    /\ dr_fans[2].active_curve = "StepCurve"
    /\ dr_dev = <<[cmd |-> "set_speed", port |-> 2, arg |-> 6],
                  [cmd |-> "get_data", port |-> 2, arg |-> 0]>>
    /\ dr_fans[2].current_speed = 25 /\ dr_fans[2].current_rpm = 900
    /\ dr_fans[1].current_speed = 0 /\ dr_fans[1].current_rpm = 0

\* C25: update_channel, update_channel_color, switch_curve,
\* get_active_curve and update_curve_data called with channel 0 or a channel
\* above the number of fans return an error: they do not panic, send
\* nothing to the device and leave every fan as it was.
C25_UnknownChannelIsAnError ==
    [][/\ dr_ret' # dr_ret \/ dr_dev' # dr_dev \/ dr_fans' # dr_fans
       /\ dr_ret'.channel \notin 1..DrFanCount
       => /\ dr_ret'.result \notin {"ok", "panic"}
          /\ dr_dev' = <<>>
          /\ dr_fans' = dr_fans]_vars

\* C26: switch_curve(ch, name) on a fan fails and leaves the active curve
\* when name is not in the fan's curve map; otherwise it succeeds, makes
\* name the active curve and changes nothing else; switching to the active
\* curve changes nothing.
C26_SwitchCurve ==
    [][dr_ret'.op = "switch_curve" /\ dr_ret'.channel \in 1..DrFanCount =>
          LET ch == dr_ret'.channel
              name == dr_ret'.value
          IN  /\ dr_ret'.result = "ok" <=> name \in DOMAIN dr_fans[ch].curve
              /\ dr_ret'.result # "ok" => dr_fans' = dr_fans
              /\ dr_ret'.result = "ok" =>
                     dr_fans' = [dr_fans EXCEPT ![ch].active_curve = name]
              /\ name = dr_fans[ch].active_curve => dr_fans' = dr_fans
              /\ dr_dev' = <<>>]_vars

\* fan 2 was switched to the step curve, and then a switch of fan 1 to a
\* curve it does not have failed and left both fans
C26_Witness ==
    /\ dr_ret = DrReturn("switch_curve", 1, "Curve not found", "Missing")
    /\ dr_fans[1].active_curve = "Constant"
    /\ dr_fans[2].active_curve = "StepCurve"

\* C27: update_curve_data(ch, name, data) on a fan fails with an
\* unknown-curve error when name is not in the curve map and with an
\* incompatible-kind error, distinct from it, when the stored curve and
\* data are of different variants, leaving the curve map in both cases;
\* otherwise it replaces the data of that entry alone and leaves the active
\* curve name; repeating the update changes nothing.
C27_UpdateCurveData ==
    [][dr_ret'.op = "update_curve_data" /\ dr_ret'.channel \in 1..DrFanCount
       =>
          LET ch == dr_ret'.channel
              name == dr_ret'.value
              fan == dr_fans[ch]
          IN  /\ dr_dev' = <<>>
              /\ name \notin DOMAIN fan.curve =>
                     /\ dr_ret'.result = "Curve not found"
                     /\ dr_fans' = dr_fans
              /\ name \in DOMAIN fan.curve =>
                     \/ /\ dr_ret'.result = "ok"
                        /\ dr_fans'[ch].curve[name].kind = fan.curve[name].kind
                        /\ dr_fans' =
                             [dr_fans EXCEPT ![ch].curve[name] =
                                                 dr_fans'[ch].curve[name]]
                     \/ /\ dr_ret'.result \notin {"ok", "Curve not found"}
                        /\ dr_fans' = dr_fans]_vars

(***************************************************************************)
(* Claims about the addressing of fans                                     *)
(***************************************************************************)

\* C24: for a configured target {controller: c, fan_idx: f}, both counted
\* from 1, the mapping index, the tick and the controller set address the
\* c-th controller of the list and its f-th fan, and the requests of the
\* tick go to port f: every operation of the controller set resolves
\* controller c to the c-th controller.
C24_OneBasedAddressing ==
    /\ ad_pc \in {"indexed", "called", "resolved", "done"}
           /\ ad_op \in {"none", "update_channel"}
           => ad_fanref = [controller_id |-> ad_target[1],
                           channel |-> ad_target[2]]
    /\ ad_pc \in {"called", "resolved", "done", "failed"}
           => ad_call = ad_target
    /\ ad_pc # "failed"
    /\ ad_pc \in {"resolved", "done"} => ad_ctrl = ad_target[1]
    /\ ad_pc = "done" => ad_fan = ad_target[2]
    /\ ad_pc = "done" /\ ad_op = "update_channel" => ad_port = ad_target[2]

(***************************************************************************)
(* Claims about the status requests                                        *)
(***************************************************************************)

\* C30: init, set_speed and set_rgb succeed exactly when the write
\* succeeds, the read succeeds and byte 2 of the response buffer is 0xFC;
\* with any other status byte they return an error.
C30_StatusMustBeFC ==
    pr_result # NoStatusResult =>
        /\ pr_result.ok <=>
               /\ pr_write
               /\ pr_read > 0
               /\ pr_buf[2] = 252
        /\ pr_write /\ pr_read = 193 /\ pr_status # 252 =>
               pr_result = [ok |-> FALSE, err |-> "Expected status 0xFC"]

\* set_speed answered in full with status 0xFE returned the status error
C30_Witness ==
    /\ pr_cmd = "SetSpeed"
    /\ pr_write /\ pr_read = 193 /\ pr_status = 254
    /\ pr_buf[2] = 254
    /\ pr_result = [ok |-> FALSE, err |-> "Expected status 0xFC"]

(***************************************************************************)
(* Claims about the command encoding                                       *)
(***************************************************************************)

\* C31: the packet of a command is the row of the wire table: Init is
\* 00 FE 33, GetFirmwareVersion 00 33 50, GetData 00 33 51 p, SetSpeed
\* 00 32 51 p 01 s, SetRgb 00 32 52 p m followed by the triplets in the
\* order given; every packet starts with 0x00 and a SetRgb of n triplets is
\* 5 + 3n bytes long, 161 bytes for 52 triplets.
C31_WireTable ==
    en_bytes # <<>> =>
        /\ en_bytes[1] = 0
        /\ en_cmd.kind = "Init" => en_bytes = <<0, 254, 51>>
        /\ en_cmd.kind = "GetFirmwareVersion" => en_bytes = <<0, 51, 80>>
        /\ en_cmd.kind = "GetData" => en_bytes = <<0, 51, 81, en_cmd.port>>
        /\ en_cmd.kind = "SetSpeed" =>
               en_bytes = <<0, 50, 81, en_cmd.port, 1, en_cmd.speed>>
        /\ en_cmd.kind = "SetRgb" =>
               /\ Len(en_bytes) = 5 + 3 * Len(en_cmd.colors)
               /\ Len(en_cmd.colors) = 52 => Len(en_bytes) = 161
               /\ SubSeq(en_bytes, 1, 5) =
                      <<0, 50, 82, en_cmd.port, en_cmd.mode>>
               /\ \A i \in 1..Len(en_cmd.colors), j \in 1..3 :
                      en_bytes[5 + 3 * (i - 1) + j] = en_cmd.colors[i][j]

\* a SetRgb of two different triplets was encoded
C31_Witness ==
    /\ en_cmd.kind = "SetRgb"
    /\ Len(en_cmd.colors) = 2
    /\ en_cmd.colors[1] # en_cmd.colors[2]
    /\ en_cmd.colors[1][1] # en_cmd.colors[1][2]
    /\ Len(en_bytes) = 11

(***************************************************************************)
(* Claims about the GetData decoding                                       *)
(***************************************************************************)

\* C32: decoding a GetData response returns speed = buf[2] and
\* rpm = (buf[4] << 8) | buf[3] as a 16-bit value for every pair of bytes,
\* and an error, never a panic, when the buffer has fewer than 5 bytes.
C32_DataDecoding ==
    gd_result # NotParsed =>
        /\ gd_result.kind # "panic"
        /\ Len(gd_buf) < 5 => gd_result.kind = "Buf too small for Data"
        /\ Len(gd_buf) >= 5 =>
               /\ gd_result.kind = "Data"
               /\ gd_result.speed = gd_buf[3]
               /\ gd_result.rpm = 256 * gd_buf[5] + gd_buf[4]
               /\ gd_result.rpm \in 0..65535

\* a response whose rpm bytes are 0x10 and 0x20 decoded to 0x2010
C32_Witness ==
    /\ Len(gd_buf) >= 5
    /\ gd_buf[4] = 16 /\ gd_buf[5] = 32
    /\ gd_result.kind = "Data"
    /\ gd_result.rpm = 8208

\* a buffer of four bytes was refused
C32_ShortWitness ==
    /\ Len(gd_buf) = 4
    /\ gd_result.kind = "Buf too small for Data"

(***************************************************************************)
(* Claims about the cancellation of the monitoring loop                    *)
(***************************************************************************)

\* C33: once the token of the monitoring task is cancelled, the loop
\* completes at most the operation that is in flight: no sensor read and no
\* channel update begins with the token cancelled.
C33_NothingBeginsAfterCancel == mc_begun = <<>>

(***************************************************************************)
(* Claims about the color loop                                             *)
(***************************************************************************)

\* the targets of the mappings whose color is defined
OwedColorCalls ==
    LET F[m \in 0..Len(fc_cfg.color_mappings)] ==
            IF m = 0 THEN 0
            ELSE F[m - 1] +
                 (IF fc_cfg.color_mappings[m].color \in fc_cfg.colors
                  THEN Len(fc_cfg.color_mappings[m].targets) ELSE 0)
    IN F[Len(fc_cfg.color_mappings)]

\* C34: every pass of the color loop, begun by the timer or by a received
\* TemperatureChanged, ends with exactly one ColorChanged publication, with
\* no color mappings and with a mapping whose color is not defined as well:
\* that mapping is skipped and the others are applied.
C34_EveryPassPublishesOnce ==
    /\ fc_pc # "panicked"
    /\ fc_pc = "pass" => fc_pub = fc_passes.n - 1
    /\ fc_pc = "select" =>
           /\ fc_pub = fc_passes.n
           /\ fc_passes.n > 0 => Len(fc_applied) = OwedColorCalls

\* the same, for the passes in which no call of the driver panicked
C34_PassWithoutPanicPublishesOnce ==
    /\ fc_pc = "pass" => fc_pub = fc_passes.n - 1
    /\ fc_pc = "select" =>
           /\ fc_pub = fc_passes.n
           /\ fc_passes.n > 0 => Len(fc_applied) = OwedColorCalls

\* a pass begun by an event, over a mapping of an undefined color followed
\* by a mapping of a defined one, has applied the second and published
C34_Witness ==
    /\ Len(fc_cfg.color_mappings) = 2
    /\ fc_cfg.color_mappings[1].color \notin fc_cfg.colors
    /\ fc_cfg.color_mappings[1].targets # <<>>
    /\ fc_cfg.color_mappings[2].color \in fc_cfg.colors
    /\ fc_passes = [n |-> 1, by |-> "event"]
    /\ fc_pc = "select"
    /\ fc_applied = fc_cfg.color_mappings[2].targets
    /\ fc_applied # <<>>
    /\ fc_pub = 1

(***************************************************************************)
(* Claims about the shutdown requests                                      *)
(***************************************************************************)
Published(subscribed) ==
    \E i \in 1..Len(sh_stops) :
        /\ sh_stops[i].result = "ok"
        /\ sh_stops[i].subscribed \in subscribed

\* C35: a SystemShutdown that stop has published at any time after the
\* endpoint was started is eventually received by the coordinator, which
\* then cancels and awaits all tasks; also when it was published before the
\* main loop had subscribed, or while the coordinator handles another event.
C35_ShutdownIsNotLost == Published({TRUE, FALSE}) ~> sh_pc = "stopped"

\* the same for the requests published once the main loop has subscribed
C35_ShutdownAfterSubscribe == Published({TRUE}) ~> sh_pc = "stopped"

\* a request published after the main loop had subscribed has stopped the
\* coordinator
C35_Witness ==
    /\ Len(sh_stops) = 1
    /\ sh_stops[1] = [result |-> "ok", subscribed |-> TRUE]
    /\ sh_pc = "stopped"

(***************************************************************************)
(* Claims about the main loop after a failed hot reload                    *)
(***************************************************************************)

\* C36: a hot reload that fails (a file that cannot be read, parsed or
\* validated) does not stop the daemon: the main loop keeps running with the
\* configuration it had, and the service tasks keep running.
C36_FailedReloadKeepsRunning ==
    [][Handles("HotReload") /\ shared_state.some /\ ~DiskLoads =>
            /\ co_pc' = "loop"
            /\ config' = config
            /\ co_tasks' = co_tasks
            /\ co_token' = co_token]_vars

\* what a failed reload does keep: the configuration and the tasks
C36_FailedReloadKeepsState ==
    [][Handles("HotReload") /\ shared_state.some /\ ~DiskLoads =>
            /\ config' = config
            /\ co_tasks' = co_tasks
            /\ co_token' = co_token]_vars

(***************************************************************************)
(* Claims about the start-up of the service tasks                          *)
(***************************************************************************)

\* C37: when a critical service cannot complete its start-up inside its
\* task, start_all_services reports the failure and aborts the startup: the
\* service is not reported as started and the call does not return success.
C37_StartupFailureIsReported ==
    \A p \in Providers :
        is_critical(p) /\ st_task[p] = "failed" =>
            /\ p \notin st_reported
            /\ st_ret # "ok"

\* what start_all_services does report: every provider it went past
C37_EverySpawnIsReported ==
    /\ st_reported = {StProviders[i] : i \in 1..st_i - 1}
    /\ st_ret # "err"

(***************************************************************************)
(* Claims about the locks of the shared state                              *)
(***************************************************************************)

\* the lock a queued task waits for, and the mode it asked for
WaitStep(t) == Program(lk_unit[t])[lk_pc[t]]

\* the tasks a queued task waits for: the holders of guards it is not
\* compatible with, and the tasks before it in the queue
Blockers(t) ==
    LET s == WaitStep(t)
        q == lk_queue[s.lock]
    IN  {h.task : h \in {g \in lk_held :
                           g.lock = s.lock /\ (s.mode = "W" \/ g.mode = "W")}}
            \cup {q[i] : i \in {j \in 1..Len(q) :
                                   \E k \in 1..Len(q) : q[k] = t /\ j < k}}

\* C38: no reachable interleaving of the monitoring pass, the color pass,
\* the broadcast, the calls of the control endpoint and the hot reload
\* leaves a set of tasks that wait on each other forever: there is no set
\* of waiting tasks each of which waits for a task of the set.
C38_NoWaitCycle ==
    ~ \E S \in SUBSET LkTasks :
          /\ S # {}
          /\ \A t \in S : Queued(t) /\ Blockers(t) \cap S # {}

\* the hot reload waits for the color pass, which waits behind the
\* monitoring pass, which waits for a reader of the sample cache
C38_Witness ==
    /\ Queued("coordinator") /\ "color" \in Blockers("coordinator")
    /\ Queued("color") /\ "monitoring" \in Blockers("color")
    /\ Queued("monitoring") /\ Blockers("monitoring") # {}

(***************************************************************************)
(* Claims about the fans built from a configuration                        *)
(***************************************************************************)

\* C39: for a fan of a controller built from a configuration that passed
\* validation, the active curve is a key of the fan's own curve map, so
\* compute_speed never fails with curve-not-found; switch_curve and
\* update_curve_data preserve this.
C39_ActiveCurveIsInTheMap ==
    fb_fan # NoFan =>
        /\ fb_fan.active_curve \in DOMAIN fb_fan.curve
        /\ ~(fb_ret.op = "compute_speed" /\ fb_ret.result = "Curve not found")

\* the part about the operations: a fan whose active curve is in its map
\* still has it there after any operation
C39_OperationsPreserve ==
    [][fb_fan # NoFan /\ fb_fan.active_curve \in DOMAIN fb_fan.curve =>
            fb_fan'.active_curve \in DOMAIN fb_fan'.curve]_vars

\* a switch to another curve of the map was made on a fan whose active
\* curve was in its map
C39_Witness ==
    /\ fb_ret = FbReturn("switch_curve", "ok")
    /\ fb_fan.active_curve # fb_cfg.active_curve
    /\ fb_cfg.active_curve \in fb_cfg.curve
    /\ fb_fan.active_curve \in DOMAIN fb_fan.curve

(***************************************************************************)
(* Claims about concurrent calls on the mapping index                      *)
(***************************************************************************)

\* the fans the shared index yields for a sensor
CaFansFor(sensor) ==
    IF sensor \in DOMAIN ca_s2f THEN ca_s2f[sensor] ELSE {}

AllReturned == \A t \in CaTasks : ca_pc[t] = "idle"

\* C40: once all calls have returned, after any interleaving of concurrent
\* attach and detach calls on the same index, fans2sensor maps a fan to a
\* sensor exactly when the sensor's set holds the fan.
C40_IndexAfterConcurrentCalls ==
    AllReturned =>
        \A f \in FanRefs, s \in SensorKeys :
            (f \in DOMAIN ca_f2s /\ ca_f2s[f] = s) <=> f \in CaFansFor(s)

=============================================================================
